---------------------------- MODULE Spec2Model ----------------------------
(***************************************************************************)
(* FIFO ledger engine of the portfolio position / P&L tracker.             *)
(*                                                                         *)
(* State: the in-memory collections of PortfolioStorageService and the     *)
(* price map of MarketPriceService.                                        *)
(* Operations: PortfolioService.addTrade (with updatePosition, handleBuy,  *)
(* handleSell and the store's savePnlRecord inlined as operators),         *)
(* PortfolioService.updatePrice and clearAll, and the read side of         *)
(* PortfolioQueryService: getPortfolio, getPnl, getAllTrades and           *)
(* getTradeByTradeId.  Spec runs the ledger alone; QuerySpec runs the      *)
(* ledger, the price updates and the queries on a smaller set of requests. *)
(*                                                                         *)
(* Decimal values.  decimal.js is configured with precision 20: the result *)
(* of plus, minus, times and dividedBy is rounded to 20 significant        *)
(* digits (half up); the constructor does not round.  A Decimal is         *)
(* modelled as the record [hi, lo, fr] denoting                            *)
(* hi * 10^BigExp + lo + fr * 10^-BigExp, with hi, lo and fr machine       *)
(* integers.  With BigExp = 30 a value whose hi part is not zero has more  *)
(* than 20 significant digits as soon as lo is not zero, and lo is below   *)
(* half a unit in the 20th digit, so rounding drops lo; fr stands to lo as *)
(* lo stands to hi.  Values with one part only have at most 10 digits and  *)
(* are never rounded.                                                      *)
(***************************************************************************)
EXTENDS Integers, Sequences, FiniteSets, TLC

VARIABLES
    trades,                 \* PortfolioStorageService.trades: Trade[]
    tradeIdIndex,           \* PortfolioStorageService.tradeIdIndex: Map<string, Trade>
    positions,              \* PortfolioStorageService.positions: Map<string, Position>
    pnlRecords,             \* PortfolioStorageService.pnlRecords: Map<string, RealizedPnlRecord[]>
    realizedPnlAggregates,  \* PortfolioStorageService.realizedPnlAggregates
    latestPrices,           \* MarketPriceService.latestPrices: Map<string, number>
    last,                   \* the last call: its outcome and the Trade it returned or built
    rejected                \* external ids of the calls that threw BadRequestException

storeVars == <<trades, tradeIdIndex, positions, pnlRecords, realizedPnlAggregates>>

vars == <<trades, tradeIdIndex, positions, pnlRecords, realizedPnlAggregates,
          latestPrices, last, rejected>>

---------------------------------------------------------------------------
(* Bounds and program constants *)

\* number of external trade ids a run may use (so also the longest trade log)
MaxTrades == 3

\* the large quantity of the model is 10^BigExp
BigExp == 30

\* Decimal.set({ precision: 20 })
Precision == 20

\* toNumber: value.toDecimalPlaces(8)
DecimalPlaces == 8

Symbols == {"BTC", "ETH", "DOGE"}

TradeIds == 1..MaxTrades

BUY == "buy"

SELL == "sell"

---------------------------------------------------------------------------
(* decimal.js *)

RECURSIVE NumDigits(_)
\* number of decimal digits of the integer n (0 has none)
NumDigits(n) ==
    IF n = 0 THEN 0
    ELSE IF n < 0 THEN NumDigits(-n)
    ELSE 1 + NumDigits(n \div 10)

RECURSIVE GCD(_, _)
GCD(a, b) == IF b = 0 THEN (IF a < 0 THEN -a ELSE a) ELSE GCD(b, a % b)

\* a JavaScript number m * 10^e of a request (e is 0, BigExp or -BigExp in
\* this model)
Num(m, e) == [m |-> m, e |-> e]

\* new Decimal(value): exact, no rounding
toDecimal(value) ==
    IF value.e = 0 THEN [hi |-> 0, lo |-> value.m, fr |-> 0]
    ELSE IF value.e > 0 THEN [hi |-> value.m, lo |-> 0, fr |-> 0]
    ELSE [hi |-> 0, lo |-> 0, fr |-> value.m]

Zero == [hi |-> 0, lo |-> 0, fr |-> 0]

\* finalise: round to Precision significant digits.  hi * 10^BigExp + lo has
\* BigExp + NumDigits(hi) digits; the digits kept end at 10^(that - Precision),
\* and lo, having fewer digits than that, is below half of it; likewise for
\* fr under lo.
finalise(x) ==
    IF x.hi # 0 /\ NumDigits(x.lo) < BigExp + NumDigits(x.hi) - Precision
    THEN [hi |-> x.hi, lo |-> 0, fr |-> 0]
    ELSE IF x.hi = 0 /\ x.lo # 0
            /\ NumDigits(x.fr) < BigExp + NumDigits(x.lo) - Precision
    THEN [hi |-> 0, lo |-> x.lo, fr |-> 0]
    ELSE x

plus(a, b) == finalise([hi |-> a.hi + b.hi, lo |-> a.lo + b.lo, fr |-> a.fr + b.fr])

minus(a, b) == finalise([hi |-> a.hi - b.hi, lo |-> a.lo - b.lo, fr |-> a.fr - b.fr])

\* one factor at least has hi = 0 and one at least fr = 0 (prices have the
\* lo part only in this model)
times(a, b) ==
    finalise([hi |-> a.hi * b.lo + a.lo * b.hi,
              lo |-> a.lo * b.lo + a.hi * b.fr + a.fr * b.hi,
              fr |-> a.lo * b.fr + a.fr * b.lo])

\* comparisons are exact; arguments are results of finalise or of toDecimal
cmp(a, b) ==
    IF a.hi # b.hi THEN (IF a.hi < b.hi THEN -1 ELSE 1)
    ELSE IF a.lo # b.lo THEN (IF a.lo < b.lo THEN -1 ELSE 1)
    ELSE IF a.fr < b.fr THEN -1
    ELSE IF a.fr > b.fr THEN 1
    ELSE 0

lessThan(a, b) == cmp(a, b) < 0

lessThanOrEqualTo(a, b) == cmp(a, b) <= 0

greaterThan(a, b) == cmp(a, b) > 0

\* a quotient is kept as the reduced fraction num/den scaled by 10^(e * BigExp);
\* it denotes that value rounded to Precision significant digits
Quotient(n, d, e) ==
    IF n = 0 THEN [num |-> 0, den |-> 1, e |-> 0]
    ELSE [num |-> n \div GCD(n, d), den |-> d \div GCD(n, d), e |-> e]

\* what decimal.js returns for 0 / 0 and for x / 0: no fraction
NaN == [num |-> 0, den |-> 0, e |-> 0]

Infinity == [num |-> 1, den |-> 0, e |-> 0]

\* a.dividedBy(b), a >= 0, b >= 0
dividedBy(a, b) ==
    IF b = Zero THEN (IF a = Zero THEN NaN ELSE Infinity)
    ELSE IF a.hi # 0 /\ b.hi # 0 THEN Quotient(a.hi, b.hi, 0)
    ELSE IF a.hi # 0 THEN Quotient(a.hi, b.lo, 1)
    ELSE IF b.hi # 0 THEN Quotient(a.lo, b.hi, -1)
    ELSE IF a.fr # 0 /\ b.fr # 0 THEN Quotient(a.fr, b.fr, 0)
    ELSE IF a.fr # 0 THEN Quotient(a.fr, b.lo, -1)
    ELSE IF b.fr # 0 THEN Quotient(a.lo, b.fr, 1)
    ELSE Quotient(a.lo, b.lo, 0)

ZeroQuotient == Quotient(0, 1, 0)

---------------------------------------------------------------------------
(* PortfolioStorageService *)

\* a Map is a function whose domain is the set of keys present
MapSet(map, key, value) == (key :> value) @@ map

EmptyMap == << >>

Has(map, key) == key \in DOMAIN map

\* savePnlRecord with the record list replaced where the code appends to it
savePnlRecordReplace(st, record) ==
    LET aggs == IF Has(st.aggregates, record.symbol)
                THEN st.aggregates
                ELSE MapSet(st.aggregates, record.symbol,
                            [totalPnl |-> Zero, totalQuantity |-> Zero])
        aggregate == aggs[record.symbol]
    IN  [records |-> MapSet(st.records, record.symbol, <<record>>),
         aggregates |-> MapSet(aggs, record.symbol,
             [totalPnl |-> plus(aggregate.totalPnl, record.pnl),
              totalQuantity |-> plus(aggregate.totalQuantity, record.quantity)])]

\* savePnlRecord with the aggregate assigned from the record where the code
\* adds the record to it
savePnlRecordAssign(st, record) ==
    LET recs == IF Has(st.records, record.symbol)
                THEN st.records
                ELSE MapSet(st.records, record.symbol, << >>)
    IN  [records |-> MapSet(recs, record.symbol, Append(recs[record.symbol], record)),
         aggregates |-> MapSet(st.aggregates, record.symbol,
             [totalPnl |-> record.pnl, totalQuantity |-> record.quantity])]

\* savePnlRecord on the pair of maps (records, aggregates)
\* savePnlRecord adding the pnl of the record to the aggregate and leaving
\* the closed quantity as it was
savePnlRecordPnlOnly(st, record) ==
    LET recs == IF Has(st.records, record.symbol)
                THEN st.records
                ELSE MapSet(st.records, record.symbol, << >>)
        recs2 == MapSet(recs, record.symbol, Append(recs[record.symbol], record))
        aggs == IF Has(st.aggregates, record.symbol)
                THEN st.aggregates
                ELSE MapSet(st.aggregates, record.symbol,
                            [totalPnl |-> Zero, totalQuantity |-> Zero])
        aggregate == aggs[record.symbol]
    IN  [records |-> recs2,
         aggregates |-> MapSet(aggs, record.symbol,
             [totalPnl |-> plus(aggregate.totalPnl, record.pnl),
              totalQuantity |-> aggregate.totalQuantity])]

savePnlRecord(st, record) ==
    LET recs == IF Has(st.records, record.symbol)
                THEN st.records
                ELSE MapSet(st.records, record.symbol, << >>)
        recs2 == MapSet(recs, record.symbol, Append(recs[record.symbol], record))
        aggs == IF Has(st.aggregates, record.symbol)
                THEN st.aggregates
                ELSE MapSet(st.aggregates, record.symbol,
                            [totalPnl |-> Zero, totalQuantity |-> Zero])
        aggregate == aggs[record.symbol]
    IN  [records |-> recs2,
         aggregates |-> MapSet(aggs, record.symbol,
             [totalPnl |-> plus(aggregate.totalPnl, record.pnl),
              totalQuantity |-> plus(aggregate.totalQuantity, record.quantity)])]

RECURSIVE savePnlRecords(_, _)
\* the savePnlRecord calls of one handleSell, in the order it makes them
savePnlRecords(st, records) ==
    IF records = << >> THEN st
    ELSE savePnlRecords(savePnlRecord(st, Head(records)), Tail(records))

---------------------------------------------------------------------------
(* PortfolioService *)

RECURSIVE totalCost(_)
\* fifoQueue.reduce((sum, lot) => sum.plus(lot.quantity.times(lot.price)), 0)
totalCost(queue) ==
    IF queue = << >> THEN Zero
    ELSE plus(totalCost(SubSeq(queue, 1, Len(queue) - 1)),
              times(queue[Len(queue)].quantity, queue[Len(queue)].price))

EmptyPosition(symbol) ==
    [symbol |-> symbol, fifoQueue |-> << >>,
     totalQuantity |-> Zero, averageEntryPrice |-> ZeroQuotient]

\* handleBuy putting the new lot at the head of the queue
handleBuyAtHead(position, trade) ==
    LET queue == <<[quantity |-> trade.quantity, price |-> trade.price,
                    tradeId |-> trade.id]>> \o position.fifoQueue
        total == plus(position.totalQuantity, trade.quantity)
    IN  [symbol |-> position.symbol,
         fifoQueue |-> queue,
         totalQuantity |-> total,
         averageEntryPrice |-> dividedBy(totalCost(queue), total)]

\* handleBuy adding the quantity bought to the newest lot when the queue
\* holds one
handleBuyMerging(position, trade) ==
    LET n == Len(position.fifoQueue)
        queue == IF n = 0
                 THEN <<[quantity |-> trade.quantity, price |-> trade.price,
                         tradeId |-> trade.id]>>
                 ELSE [position.fifoQueue EXCEPT ![n].quantity =
                          plus(position.fifoQueue[n].quantity, trade.quantity)]
        total == plus(position.totalQuantity, trade.quantity)
    IN  [symbol |-> position.symbol,
         fifoQueue |-> queue,
         totalQuantity |-> total,
         averageEntryPrice |-> dividedBy(totalCost(queue), total)]

handleBuy(position, trade) ==
    LET queue == Append(position.fifoQueue,
                        [quantity |-> trade.quantity, price |-> trade.price,
                         tradeId |-> trade.id])
        total == plus(position.totalQuantity, trade.quantity)
    IN  [symbol |-> position.symbol,
         fifoQueue |-> queue,
         totalQuantity |-> total,
         averageEntryPrice |-> dividedBy(totalCost(queue), total)]

\* the record with the price difference taken the other way round
PnlRecordBuyMinusSell(trade, lot, quantity) ==
    [symbol |-> trade.symbol,
     quantity |-> quantity,
     buyPrice |-> lot.price,
     sellPrice |-> trade.price,
     pnl |-> times(minus(lot.price, trade.price), quantity)]

\* the record filed under the symbol of the first market instead of the
\* symbol of the trade
PnlRecordFixedSymbol(trade, lot, quantity) ==
    [symbol |-> "BTC",
     quantity |-> quantity,
     buyPrice |-> lot.price,
     sellPrice |-> trade.price,
     pnl |-> times(minus(trade.price, lot.price), quantity)]

PnlRecord(trade, lot, quantity) ==
    [symbol |-> trade.symbol,
     quantity |-> quantity,
     buyPrice |-> lot.price,
     sellPrice |-> trade.price,
     pnl |-> times(minus(trade.price, lot.price), quantity)]

RECURSIVE matchLotsNewestFirst(_, _, _, _)
\* the loop taking the newest lot (the tail of the queue) where the code
\* takes fifoQueue[0]
matchLotsNewestFirst(queue, remainingQuantity, trade, records) ==
    IF ~(greaterThan(remainingQuantity, Zero) /\ Len(queue) > 0)
    THEN [fifoQueue |-> queue, records |-> records]
    ELSE LET newestLot == queue[Len(queue)]
             older == SubSeq(queue, 1, Len(queue) - 1)
         IN
         IF lessThanOrEqualTo(newestLot.quantity, remainingQuantity)
         THEN matchLotsNewestFirst(older,
                        minus(remainingQuantity, newestLot.quantity),
                        trade,
                        Append(records, PnlRecord(trade, newestLot, newestLot.quantity)))
         ELSE matchLotsNewestFirst(
                        Append(older, [newestLot EXCEPT !.quantity =
                                          minus(newestLot.quantity, remainingQuantity)]),
                        Zero,
                        trade,
                        Append(records, PnlRecord(trade, newestLot, remainingQuantity)))

RECURSIVE matchLotsKeepEmptied(_, _, _, _)
\* the loop shifting a lot only when the sell asks for more than it holds
matchLotsKeepEmptied(queue, remainingQuantity, trade, records) ==
    IF ~(greaterThan(remainingQuantity, Zero) /\ Len(queue) > 0)
    THEN [fifoQueue |-> queue, records |-> records]
    ELSE LET oldestLot == queue[1] IN
         IF lessThan(oldestLot.quantity, remainingQuantity)
         THEN matchLotsKeepEmptied(Tail(queue),
                        minus(remainingQuantity, oldestLot.quantity),
                        trade,
                        Append(records, PnlRecord(trade, oldestLot, oldestLot.quantity)))
         ELSE matchLotsKeepEmptied(<<[oldestLot EXCEPT !.quantity =
                               minus(oldestLot.quantity, remainingQuantity)]>>
                          \o Tail(queue),
                        Zero,
                        trade,
                        Append(records, PnlRecord(trade, oldestLot, remainingQuantity)))

\* an if where the code has a while: the oldest lot alone is matched
matchLotsOnce(queue, remainingQuantity, trade, records) ==
    IF ~(greaterThan(remainingQuantity, Zero) /\ Len(queue) > 0)
    THEN [fifoQueue |-> queue, records |-> records]
    ELSE LET oldestLot == queue[1] IN
         IF lessThanOrEqualTo(oldestLot.quantity, remainingQuantity)
         THEN [fifoQueue |-> Tail(queue),
               records |-> Append(records, PnlRecord(trade, oldestLot, oldestLot.quantity))]
         ELSE [fifoQueue |-> <<[oldestLot EXCEPT !.quantity =
                                   minus(oldestLot.quantity, remainingQuantity)]>>
                              \o Tail(queue),
               records |-> Append(records, PnlRecord(trade, oldestLot, remainingQuantity))]

RECURSIVE remainingQuantityAfter(_, _)
\* the while loop of handleSell: remainingQuantity when the loop is left
remainingQuantityAfter(queue, remainingQuantity) ==
    IF ~(greaterThan(remainingQuantity, Zero) /\ Len(queue) > 0)
    THEN remainingQuantity
    ELSE LET oldestLot == queue[1] IN
         IF lessThanOrEqualTo(oldestLot.quantity, remainingQuantity)
         THEN remainingQuantityAfter(Tail(queue),
                                     minus(remainingQuantity, oldestLot.quantity))
         ELSE remainingQuantityAfter(<<[oldestLot EXCEPT !.quantity =
                                           minus(oldestLot.quantity, remainingQuantity)]>>
                                       \o Tail(queue),
                                     Zero)

RECURSIVE matchLots(_, _, _, _)
\* the while loop of handleSell: the queue and the records it leaves
matchLots(queue, remainingQuantity, trade, records) ==
    IF ~(greaterThan(remainingQuantity, Zero) /\ Len(queue) > 0)
    THEN [fifoQueue |-> queue, records |-> records]
    ELSE LET oldestLot == queue[1] IN
         IF lessThanOrEqualTo(oldestLot.quantity, remainingQuantity)
         THEN matchLots(Tail(queue),
                        minus(remainingQuantity, oldestLot.quantity),
                        trade,
                        Append(records, PnlRecord(trade, oldestLot, oldestLot.quantity)))
         ELSE matchLots(<<[oldestLot EXCEPT !.quantity =
                               minus(oldestLot.quantity, remainingQuantity)]>>
                          \o Tail(queue),
                        Zero,
                        trade,
                        Append(records, PnlRecord(trade, oldestLot, remainingQuantity)))

\* the balance check refusing only a symbol that holds no lot
insufficientNoLots(position, trade) == Len(position.fifoQueue) = 0

\* the balance check with its operands exchanged
insufficientSwapped(position, trade) == lessThan(trade.quantity, position.totalQuantity)

\* the balance check that opens handleSell
insufficient(position, trade) == lessThan(position.totalQuantity, trade.quantity)

\* handleSell dividing by totalQuantity whatever it is
handleSellUnguarded(position, trade) ==
    LET m == matchLots(position.fifoQueue, trade.quantity, trade, << >>)
        total == minus(position.totalQuantity, trade.quantity)
    IN  [position |->
            [symbol |-> position.symbol,
             fifoQueue |-> m.fifoQueue,
             totalQuantity |-> total,
             averageEntryPrice |-> dividedBy(totalCost(m.fifoQueue), total)],
         records |-> m.records]

\* handleSell subtracting what is left of the request after the loop (zero)
\* where the code subtracts trade.quantity
handleSellStaleTotal(position, trade) ==
    LET m == matchLots(position.fifoQueue, trade.quantity, trade, << >>)
        total == minus(position.totalQuantity, Zero)
    IN  [position |->
            [symbol |-> position.symbol,
             fifoQueue |-> m.fifoQueue,
             totalQuantity |-> total,
             averageEntryPrice |->
                IF greaterThan(total, Zero)
                THEN dividedBy(totalCost(m.fifoQueue), total)
                ELSE ZeroQuotient],
         records |-> m.records]

\* handleSell leaving the average it found where the code recomputes it
handleSellKeepAverage(position, trade) ==
    LET m == matchLots(position.fifoQueue, trade.quantity, trade, << >>)
        total == minus(position.totalQuantity, trade.quantity)
    IN  [position |->
            [symbol |-> position.symbol,
             fifoQueue |-> m.fifoQueue,
             totalQuantity |-> total,
             averageEntryPrice |->
                IF greaterThan(total, Zero)
                THEN position.averageEntryPrice
                ELSE ZeroQuotient],
         records |-> m.records]

\* handleSell past its balance check: the position and the records it saved
handleSell(position, trade) ==
    LET m == matchLots(position.fifoQueue, trade.quantity, trade, << >>)
        total == minus(position.totalQuantity, trade.quantity)
    IN  [position |->
            [symbol |-> position.symbol,
             fifoQueue |-> m.fifoQueue,
             totalQuantity |-> total,
             averageEntryPrice |->
                IF greaterThan(total, Zero)
                THEN dividedBy(totalCost(m.fifoQueue), total)
                ELSE ZeroQuotient],
         records |-> m.records]

\* no Trade: what findTradeByTradeId returns for an unknown id (undefined)
NoTrade ==
    [id |-> 0, tradeId |-> 0, symbol |-> "", side |-> "",
     price |-> Zero, quantity |-> Zero]

\* a lookup that finds nothing, as with an index saveTrade does not fill
findTradeByTradeIdMiss(tradeId) == NoTrade

\* tradeIdIndex.get(tradeId)
findTradeByTradeId(tradeId) ==
    IF Has(tradeIdIndex, tradeId) THEN tradeIdIndex[tradeId] ELSE NoTrade

\* the Trade addTrade constructs; uuidv4() is fresh, here the next log index
NewTrade(dto) ==
    [id |-> Len(trades) + 1,
     tradeId |-> dto.tradeId,
     symbol |-> dto.symbol,
     side |-> dto.side,
     price |-> toDecimal(dto.price),
     quantity |-> toDecimal(dto.quantity)]

\* storage.getPosition(symbol), or the fresh position of updatePosition
positionOf(symbol) ==
    IF Has(positions, symbol) THEN positions[symbol] ELSE EmptyPosition(symbol)

\* addTrade saving the Trade it found once more before returning it
addTradeDuplicateResave(dto) ==
    /\ findTradeByTradeId(dto.tradeId) # NoTrade
    /\ trades' = Append(trades, findTradeByTradeId(dto.tradeId))
    /\ last' = [outcome |-> "duplicate", trade |-> findTradeByTradeId(dto.tradeId)]
    /\ UNCHANGED <<tradeIdIndex, positions, pnlRecords, realizedPnlAggregates,
                   latestPrices, rejected>>

\* addTrade, existingTrade found: return it
\* addTrade of a known tradeId writing the fields of the new request into
\* the stored Trade
addTradeDuplicateOverwrite(dto) ==
    /\ findTradeByTradeId(dto.tradeId) # NoTrade
    /\ LET existingTrade == findTradeByTradeId(dto.tradeId)
           trade == [NewTrade(dto) EXCEPT !.id = existingTrade.id]
       IN  /\ trades' = [i \in 1..Len(trades) |->
                            IF trades[i].id = existingTrade.id THEN trade ELSE trades[i]]
           /\ tradeIdIndex' = MapSet(tradeIdIndex, dto.tradeId, trade)
           /\ last' = [outcome |-> "duplicate", trade |-> trade]
    /\ UNCHANGED <<positions, pnlRecords, realizedPnlAggregates,
                   latestPrices, rejected>>

addTradeDuplicate(dto) ==
    /\ findTradeByTradeId(dto.tradeId) # NoTrade
    /\ last' = [outcome |-> "duplicate", trade |-> findTradeByTradeId(dto.tradeId)]
    /\ UNCHANGED <<storeVars, latestPrices, rejected>>

\* addTrade of a BUY that drops the aggregate of a symbol it reopens
addTradeBuyDropAggregate(dto) ==
    /\ findTradeByTradeId(dto.tradeId) = NoTrade
    /\ dto.side = BUY
    /\ LET trade == NewTrade(dto)
       IN  /\ trades' = Append(trades, trade)
           /\ tradeIdIndex' = MapSet(tradeIdIndex, trade.tradeId, trade)
           /\ positions' = MapSet(positions, trade.symbol,
                                  handleBuy(positionOf(trade.symbol), trade))
           /\ realizedPnlAggregates' =
                 IF positionOf(trade.symbol).totalQuantity = Zero
                 THEN [s \in DOMAIN realizedPnlAggregates \ {trade.symbol} |->
                          realizedPnlAggregates[s]]
                 ELSE realizedPnlAggregates
           /\ last' = [outcome |-> "recorded", trade |-> trade]
    /\ UNCHANGED <<pnlRecords, latestPrices, rejected>>

\* addTrade of a new BUY: saveTrade, handleBuy, savePosition
addTradeBuy(dto) ==
    /\ findTradeByTradeId(dto.tradeId) = NoTrade
    /\ dto.side = BUY
    /\ LET trade == NewTrade(dto)
       IN  /\ trades' = Append(trades, trade)
           /\ tradeIdIndex' = MapSet(tradeIdIndex, trade.tradeId, trade)
           /\ positions' = MapSet(positions, trade.symbol,
                                  handleBuy(positionOf(trade.symbol), trade))
           /\ last' = [outcome |-> "recorded", trade |-> trade]
    /\ UNCHANGED <<pnlRecords, realizedPnlAggregates, latestPrices, rejected>>

\* addTrade of a SELL that deletes the Position it has closed
addTradeSellDeleteClosed(dto) ==
    /\ findTradeByTradeId(dto.tradeId) = NoTrade
    /\ dto.side = SELL
    /\ LET trade == NewTrade(dto)
           position == positionOf(trade.symbol)
       IN  /\ ~insufficient(position, trade)
           /\ trades' = Append(trades, trade)
           /\ tradeIdIndex' = MapSet(tradeIdIndex, trade.tradeId, trade)
           /\ LET sold == handleSell(position, trade)
                  st == savePnlRecords([records |-> pnlRecords,
                                        aggregates |-> realizedPnlAggregates],
                                       sold.records)
              IN  /\ positions' =
                        IF sold.position.totalQuantity = Zero
                        THEN [s \in DOMAIN positions \ {trade.symbol} |-> positions[s]]
                        ELSE MapSet(positions, trade.symbol, sold.position)
                  /\ pnlRecords' = st.records
                  /\ realizedPnlAggregates' = st.aggregates
           /\ last' = [outcome |-> "recorded", trade |-> trade]
    /\ UNCHANGED <<latestPrices, rejected>>

\* addTrade of a new SELL that passes the balance check:
\* saveTrade, handleSell with its savePnlRecord calls, savePosition
addTradeSell(dto) ==
    /\ findTradeByTradeId(dto.tradeId) = NoTrade
    /\ dto.side = SELL
    /\ LET trade == NewTrade(dto)
           position == positionOf(trade.symbol)
       IN  /\ ~insufficient(position, trade)
           /\ trades' = Append(trades, trade)
           /\ tradeIdIndex' = MapSet(tradeIdIndex, trade.tradeId, trade)
           /\ LET sold == handleSell(position, trade)
                  st == savePnlRecords([records |-> pnlRecords,
                                        aggregates |-> realizedPnlAggregates],
                                       sold.records)
              IN  /\ positions' = MapSet(positions, trade.symbol, sold.position)
                  /\ pnlRecords' = st.records
                  /\ realizedPnlAggregates' = st.aggregates
           /\ last' = [outcome |-> "recorded", trade |-> trade]
    /\ UNCHANGED <<latestPrices, rejected>>

\* addTrade of a new SELL that fails the balance check: saveTrade has run
\* when handleSell throws BadRequestException; savePosition is not reached
addTradeRejected(dto) ==
    /\ findTradeByTradeId(dto.tradeId) = NoTrade
    /\ dto.side = SELL
    /\ LET trade == NewTrade(dto)
       IN  /\ insufficient(positionOf(trade.symbol), trade)
           /\ trades' = Append(trades, trade)
           /\ tradeIdIndex' = MapSet(tradeIdIndex, trade.tradeId, trade)
           /\ last' = [outcome |-> "insufficient", trade |-> trade]
    /\ rejected' = rejected \cup {dto.tradeId}
    /\ UNCHANGED <<positions, pnlRecords, realizedPnlAggregates, latestPrices>>

addTrade(dto) ==
    \/ addTradeDuplicate(dto)
    \/ addTradeBuy(dto)
    \/ addTradeSell(dto)
    \/ addTradeRejected(dto)

\* MarketPriceService.initializeDefaultPrices
initializeDefaultPrices ==
    [symbol \in {"BTC", "ETH", "SOL", "LINK", "UNI"} |->
        CASE symbol = "BTC"  -> Num(44000, 0)
          [] symbol = "ETH"  -> Num(2500, 0)
          [] symbol = "SOL"  -> Num(100, 0)
          [] symbol = "LINK" -> Num(14, 0)
          [] OTHER           -> Num(5, 0)]

\* clearAll leaving the index of external ids as it is
clearAllKeepIndex ==
    /\ trades' = << >>
    /\ positions' = EmptyMap
    /\ pnlRecords' = EmptyMap
    /\ realizedPnlAggregates' = EmptyMap
    /\ latestPrices' = initializeDefaultPrices
    /\ last' = [outcome |-> "cleared", trade |-> NoTrade]
    /\ rejected' = {}
    /\ UNCHANGED tradeIdIndex

\* PortfolioService.clearAll: storage.clearAllData() and
\* marketPriceService.clearAllPrices()
clearAll ==
    /\ trades' = << >>
    /\ tradeIdIndex' = EmptyMap
    /\ positions' = EmptyMap
    /\ pnlRecords' = EmptyMap
    /\ realizedPnlAggregates' = EmptyMap
    /\ latestPrices' = initializeDefaultPrices
    /\ last' = [outcome |-> "cleared", trade |-> NoTrade]
    /\ rejected' = {}

---------------------------------------------------------------------------
(* MarketPriceService *)

\* Map.get of a key the map does not hold
undefined == [undefined |-> TRUE]

\* MarketPriceService.getPrice
getPrice(symbol) ==
    IF Has(latestPrices, symbol) THEN latestPrices[symbol] ELSE undefined

\* PortfolioService.updatePrice -> MarketPriceService.updatePrice, price > 0
updatePrice(symbol, price) ==
    /\ ~(price.m <= 0)
    /\ latestPrices' = MapSet(latestPrices, symbol, price)
    /\ last' = [outcome |-> "priceUpdated", trade |-> NoTrade]
    /\ UNCHANGED <<storeVars, rejected>>

\* updatePrice storing the price it rejects
updatePriceStored(symbol, price) ==
    /\ price.m <= 0
    /\ latestPrices' = MapSet(latestPrices, symbol, price)
    /\ last' = [outcome |-> "invalidPrice", trade |-> NoTrade]
    /\ UNCHANGED <<storeVars, rejected>>

\* MarketPriceService.updatePrice throwing on price <= 0
updatePriceRejected(symbol, price) ==
    /\ price.m <= 0
    /\ last' = [outcome |-> "invalidPrice", trade |-> NoTrade]
    /\ UNCHANGED <<storeVars, latestPrices, rejected>>

RECURSIVE applyPrices(_, _)
\* the forEach of updatePrices over Object.entries(prices): each entry is
\* checked and set in its turn, and the first price <= 0 throws
applyPrices(prices, entries) ==
    IF entries = << >> THEN [latestPrices |-> prices, threw |-> FALSE]
    ELSE IF entries[1][2].m <= 0 THEN [latestPrices |-> prices, threw |-> TRUE]
    ELSE applyPrices(MapSet(prices, entries[1][1], entries[1][2]), Tail(entries))

\* PortfolioService.updatePrices -> MarketPriceService.updatePrices
updatePrices(entries) ==
    LET applied == applyPrices(latestPrices, entries)
    IN  /\ latestPrices' = applied.latestPrices
        /\ last' = [outcome |-> IF applied.threw THEN "invalidPrices" ELSE "pricesUpdated",
                    trade |-> NoTrade, argument |-> entries]
        /\ UNCHANGED <<storeVars, rejected>>

---------------------------------------------------------------------------
(* JavaScript numbers of the responses.  A number is the record            *)
(* [hn, hd, int, frac] denoting (hn / hd) * 10^BigExp + int + frac * 10^-8 *)
(* with int and frac of the same sign and |frac| < 10^8; when hn is not    *)
(* zero the double has no bits left for the rest, and int and frac are 0.  *)

E8 == 10 ^ DecimalPlaces

Abs(n) == IF n < 0 THEN -n ELSE n

Sign(n) == IF n < 0 THEN -1 ELSE 1

NumberZero == [hn |-> 0, hd |-> 1, int |-> 0, frac |-> 0]

\* toNumber losing the sign of the value
toNumberOfMagnitude(value) ==
    IF value.hi # 0 THEN [hn |-> Abs(value.hi), hd |-> 1, int |-> 0, frac |-> 0]
    ELSE [hn |-> 0, hd |-> 1, int |-> Abs(value.lo), frac |-> 0]

\* toNumber of a value held as [hi, lo, fr]: toDecimalPlaces(8) rounds the
\* fr part (below 10^-20) away, toNumber takes the nearest double
toNumber(value) ==
    IF value.hi # 0 THEN [hn |-> value.hi, hd |-> 1, int |-> 0, frac |-> 0]
    ELSE [hn |-> 0, hd |-> 1, int |-> value.lo, frac |-> 0]

\* toNumber of a value held as a quotient: half up at the 8th decimal place
toNumberOfQuotient(q) ==
    IF q.e > 0 THEN [hn |-> q.num, hd |-> q.den, int |-> 0, frac |-> 0]
    ELSE IF q.e < 0 THEN NumberZero
    ELSE LET n == Abs(q.num)
             f == (2 * (n % q.den) * E8 + q.den) \div (2 * q.den)
             i == (n \div q.den) + (IF f = E8 THEN 1 ELSE 0)
         IN  [hn |-> 0, hd |-> 1, int |-> Sign(q.num) * i,
              frac |-> Sign(q.num) * (IF f = E8 THEN 0 ELSE f)]

\* a + b on doubles
NumberPlus(a, b) ==
    IF a.hn # 0 \/ b.hn # 0
    THEN LET q == Quotient(a.hn * b.hd + b.hn * a.hd, a.hd * b.hd, 0)
         IN  [hn |-> q.num, hd |-> q.den, int |-> 0, frac |-> 0]
    ELSE LET i0 == a.int + b.int
             f0 == a.frac + b.frac
             i1 == IF f0 >= E8 THEN i0 + 1 ELSE IF f0 <= -E8 THEN i0 - 1 ELSE i0
             f1 == IF f0 >= E8 THEN f0 - E8 ELSE IF f0 <= -E8 THEN f0 + E8 ELSE f0
         IN  IF i1 > 0 /\ f1 < 0 THEN [hn |-> 0, hd |-> 1, int |-> i1 - 1, frac |-> f1 + E8]
             ELSE IF i1 < 0 /\ f1 > 0 THEN [hn |-> 0, hd |-> 1, int |-> i1 + 1, frac |-> f1 - E8]
             ELSE [hn |-> 0, hd |-> 1, int |-> i1, frac |-> f1]

RECURSIVE NumberSum(_)
\* numbers.reduce((sum, x) => sum + x, 0)
NumberSum(numbers) ==
    IF numbers = << >> THEN NumberZero
    ELSE NumberPlus(NumberSum(SubSeq(numbers, 1, Len(numbers) - 1)),
                    numbers[Len(numbers)])

\* parseFloat(x.toFixed(2)): the magnitude to the nearest hundredth, the
\* larger one at a tie
toFixed2(x) ==
    IF x.hn # 0 THEN x
    ELSE LET cents == (Abs(x.frac) + (E8 \div 200)) \div (E8 \div 100)
             sgn == IF x.int # 0 THEN Sign(x.int) ELSE Sign(x.frac)
         IN  IF cents = 100
             THEN [hn |-> 0, hd |-> 1, int |-> x.int + sgn, frac |-> 0]
             ELSE [hn |-> 0, hd |-> 1, int |-> x.int, frac |-> sgn * cents * (E8 \div 100)]

---------------------------------------------------------------------------
(* PortfolioQueryService *)

\* a value held as [hi, lo, fr] with one part, in the form of a quotient
asQuotient(x) ==
    IF x.hi # 0 THEN Quotient(x.hi, 1, 1)
    ELSE IF x.lo # 0 THEN Quotient(x.lo, 1, 0)
    ELSE Quotient(x.fr, 1, -1)

\* a.minus(b) on values held as quotients; of two values 10^BigExp apart the
\* smaller is rounded away
minusOfQuotients(a, b) ==
    IF b.num = 0 THEN a
    ELSE IF a.num = 0 \/ a.e < b.e THEN Quotient(-b.num, b.den, b.e)
    ELSE IF a.e > b.e THEN a
    ELSE Quotient(a.num * b.den - b.num * a.den, a.den * b.den, a.e)

\* q.times(x), q held as a quotient and x as [hi, lo, fr] with one part
timesOfQuotient(q, x) ==
    IF x.hi # 0 THEN Quotient(q.num * x.hi, q.den, q.e + 1)
    ELSE IF x.lo # 0 THEN Quotient(q.num * x.lo, q.den, q.e)
    ELSE Quotient(q.num * x.fr, q.den, q.e - 1)

Range(seq) == {seq[i] : i \in 1..Len(seq)}

RECURSIVE InsertionOrder(_, _, _)
\* iteration order of a Map keyed by symbol: the order in which the keys were
\* first set, that is the order of the first accepted trade (of that side,
\* if one is given) of each key in the log
InsertionOrder(keys, sides, n) ==
    IF n = 0 THEN << >>
    ELSE LET before == InsertionOrder(keys, sides, n - 1)
         IN  IF /\ trades[n].symbol \in keys
                /\ trades[n].side \in sides
                /\ trades[n].tradeId \notin rejected
                /\ trades[n].symbol \notin Range(before)
             THEN Append(before, trades[n].symbol)
             ELSE before

\* PortfolioStorageService.getAllPositions
getAllPositions ==
    LET order == InsertionOrder(DOMAIN positions, {BUY, SELL}, Len(trades))
    IN  [i \in 1..Len(order) |-> positions[order[i]]]

\* the aggregates with a profit only
getRealizedPnlAggregatesProfitable ==
    LET order == InsertionOrder({s \in DOMAIN realizedPnlAggregates :
                                    greaterThan(realizedPnlAggregates[s].totalPnl, Zero)},
                                {SELL}, Len(trades))
    IN  [i \in 1..Len(order) |->
            [symbol |-> order[i], data |-> realizedPnlAggregates[order[i]]]]

\* the entries of PortfolioStorageService.getRealizedPnlAggregates
getRealizedPnlAggregates ==
    LET order == InsertionOrder(DOMAIN realizedPnlAggregates, {SELL}, Len(trades))
    IN  [i \in 1..Len(order) |->
            [symbol |-> order[i], data |-> realizedPnlAggregates[order[i]]]]

\* the filter left out
filterBySymbolsIgnored(items, symbols) == items

\* if (symbols && symbols.length > 0) items.filter(symbolSet.has(item.symbol))
filterBySymbols(items, symbols) ==
    IF Len(symbols) > 0
    THEN SelectSeq(items, LAMBDA item : item.symbol \in Range(symbols))
    ELSE items

\* the positions without the test on totalQuantity
openPositionsWithClosed(symbols) == filterBySymbols(getAllPositions, symbols)

\* the open positions a query works on
openPositions(symbols) ==
    SelectSeq(filterBySymbols(getAllPositions, symbols),
              LAMBDA pos : greaterThan(pos.totalQuantity, Zero))

\* a price of zero where the oracle has none
currentPriceOfZeroFallback(pos) ==
    LET marketPrice == getPrice(pos.symbol)
    IN  IF marketPrice # undefined /\ marketPrice.m # 0
        THEN asQuotient(toDecimal(marketPrice))
        ELSE ZeroQuotient

\* marketPrice ? toDecimal(marketPrice) : pos.averageEntryPrice
currentPriceOf(pos) ==
    LET marketPrice == getPrice(pos.symbol)
    IN  IF marketPrice # undefined /\ marketPrice.m # 0
        THEN asQuotient(toDecimal(marketPrice))
        ELSE pos.averageEntryPrice

\* currentPrice.minus(pos.averageEntryPrice).times(pos.totalQuantity)
unrealizedPnlOf(pos) ==
    timesOfQuotient(minusOfQuotients(currentPriceOf(pos), pos.averageEntryPrice),
                    pos.totalQuantity)

\* getPortfolio summing the currentValue figures for both totals
getPortfolioValueTwice(symbols) ==
    LET open == openPositions(symbols)
        positionsWithPnl ==
            [i \in 1..Len(open) |->
                [symbol |-> open[i].symbol,
                 totalQuantity |-> toNumber(open[i].totalQuantity),
                 averageEntryPrice |-> toNumberOfQuotient(open[i].averageEntryPrice),
                 currentPrice |-> toNumberOfQuotient(currentPriceOf(open[i])),
                 currentValue |->
                    toNumberOfQuotient(timesOfQuotient(currentPriceOf(open[i]),
                                                       open[i].totalQuantity)),
                 unrealizedPnl |-> toNumberOfQuotient(unrealizedPnlOf(open[i]))]]
    IN  [positions |-> positionsWithPnl,
         totalValue |->
            toFixed2(NumberSum([i \in 1..Len(open) |-> positionsWithPnl[i].currentValue])),
         totalUnrealizedPnl |->
            toFixed2(NumberSum([i \in 1..Len(open) |-> positionsWithPnl[i].currentValue]))]

\* PortfolioQueryService.getPortfolio
getPortfolio(symbols) ==
    LET open == openPositions(symbols)
        positionsWithPnl ==
            [i \in 1..Len(open) |->
                [symbol |-> open[i].symbol,
                 totalQuantity |-> toNumber(open[i].totalQuantity),
                 averageEntryPrice |-> toNumberOfQuotient(open[i].averageEntryPrice),
                 currentPrice |-> toNumberOfQuotient(currentPriceOf(open[i])),
                 currentValue |->
                    toNumberOfQuotient(timesOfQuotient(currentPriceOf(open[i]),
                                                       open[i].totalQuantity)),
                 unrealizedPnl |-> toNumberOfQuotient(unrealizedPnlOf(open[i]))]]
    IN  [positions |-> positionsWithPnl,
         totalValue |->
            toFixed2(NumberSum([i \in 1..Len(open) |-> positionsWithPnl[i].currentValue])),
         totalUnrealizedPnl |->
            toFixed2(NumberSum([i \in 1..Len(open) |-> positionsWithPnl[i].unrealizedPnl]))]

\* the totals of getPnl over the two lists it returns: each total is the
\* reduce of its list to 2 decimals, netPnl the sum of the two reduces to 2
\* decimals
pnlTotals(realizedPnl, unrealizedPnl) ==
    LET totalRealizedPnl ==
            NumberSum([i \in 1..Len(realizedPnl) |-> realizedPnl[i].realizedPnl])
        totalUnrealizedPnl ==
            NumberSum([i \in 1..Len(unrealizedPnl) |-> unrealizedPnl[i].unrealizedPnl])
    IN  [totalRealizedPnl |-> toFixed2(totalRealizedPnl),
         totalUnrealizedPnl |-> toFixed2(totalUnrealizedPnl),
         netPnl |-> toFixed2(NumberPlus(totalRealizedPnl, totalUnrealizedPnl))]

\* PortfolioQueryService.getPnl
getPnl(symbols) ==
    LET realizedBySymbol == getRealizedPnlAggregates
        realizedPnl ==
            filterBySymbols(
                [i \in 1..Len(realizedBySymbol) |->
                    [symbol |-> realizedBySymbol[i].symbol,
                     realizedPnl |-> toNumber(realizedBySymbol[i].data.totalPnl),
                     closedQuantity |-> toNumber(realizedBySymbol[i].data.totalQuantity)]],
                symbols)
        open == openPositions(symbols)
        unrealizedPnl ==
            [i \in 1..Len(open) |->
                [symbol |-> open[i].symbol,
                 unrealizedPnl |-> toNumberOfQuotient(unrealizedPnlOf(open[i])),
                 currentQuantity |-> toNumber(open[i].totalQuantity),
                 averageEntryPrice |-> toNumberOfQuotient(open[i].averageEntryPrice),
                 currentPrice |-> toNumberOfQuotient(currentPriceOf(open[i]))]]
        totals == pnlTotals(realizedPnl, unrealizedPnl)
    IN  [realizedPnl |-> realizedPnl,
         unrealizedPnl |-> unrealizedPnl,
         totalRealizedPnl |-> totals.totalRealizedPnl,
         totalUnrealizedPnl |-> totals.totalUnrealizedPnl,
         netPnl |-> totals.netPnl]

\* PortfolioQueryService.getAllTrades; symbol "" stands for no symbol given
getAllTrades(symbol) ==
    IF symbol # "" THEN SelectSeq(trades, LAMBDA trade : trade.symbol = symbol)
    ELSE trades

\* PortfolioQueryService.getTradeByTradeId
getTradeByTradeId(tradeId) == findTradeByTradeId(tradeId)

\* a query answered: the response is kept in last, nothing else is written
Answer(query, argument, response) ==
    /\ last' = [outcome |-> query, trade |-> NoTrade,
                argument |-> argument, response |-> response]
    /\ UNCHANGED <<storeVars, latestPrices, rejected>>

\* getPortfolio dropping the closed positions from the store as it goes
getPortfolioCallPruning(symbols) ==
    /\ last' = [outcome |-> "getPortfolio", trade |-> NoTrade,
                argument |-> symbols, response |-> getPortfolio(symbols)]
    /\ positions' = [s \in {k \in DOMAIN positions :
                                greaterThan(positions[k].totalQuantity, Zero)}
                        |-> positions[s]]
    /\ UNCHANGED <<trades, tradeIdIndex, pnlRecords, realizedPnlAggregates,
                   latestPrices, rejected>>

getPortfolioCall(symbols) == Answer("getPortfolio", symbols, getPortfolio(symbols))

getPnlCall(symbols) == Answer("getPnl", symbols, getPnl(symbols))

getAllTradesCall(symbol) == Answer("getAllTrades", symbol, getAllTrades(symbol))

getTradeByTradeIdCall(tradeId) ==
    Answer("getTradeByTradeId", tradeId, getTradeByTradeId(tradeId))

---------------------------------------------------------------------------
(* The array PortfolioStorageService.getAllTrades returns, in the hands of   *)
(* its caller.  An array is its elements and whether it is the trades array *)
(* of the store itself (shared) or another array.                           *)

\* return this.trades: the array of the store
sameArray(array) == [elements |-> array, shared |-> TRUE]

\* [...this.trades]: a new array of the same elements
spread(array) == [elements |-> array, shared |-> FALSE]

\* PortfolioStorageService.getAllTrades
storageGetAllTrades ==
    /\ last' = [outcome |-> "storage.getAllTrades", trade |-> NoTrade,
                response |-> spread(trades)]
    /\ UNCHANGED <<storeVars, latestPrices, rejected>>

\* the caller holds an array that getAllTrades returned
HoldsArray == last.outcome \in {"storage.getAllTrades", "mutated"}

\* the caller assigns the elements of the array it holds: the trades of the
\* store are assigned with it when the array is shared
callerAssigns(elements) ==
    /\ HoldsArray
    /\ last' = [outcome |-> "mutated", trade |-> NoTrade,
                response |-> [last.response EXCEPT !.elements = elements]]
    /\ trades' = IF last.response.shared THEN elements ELSE trades
    /\ UNCHANGED <<tradeIdIndex, positions, pnlRecords, realizedPnlAggregates,
                   latestPrices, rejected>>

\* array.push(trade) of a Trade the store never saw
callerPush ==
    callerAssigns(Append(last.response.elements, [NoTrade EXCEPT !.symbol = "DOGE"]))

\* array.pop()
callerPop ==
    /\ HoldsArray
    /\ last.response.elements # << >>
    /\ callerAssigns(SubSeq(last.response.elements, 1,
                            Len(last.response.elements) - 1))

\* array.reverse()
callerReverse ==
    /\ HoldsArray
    /\ Len(last.response.elements) >= 2
    /\ callerAssigns([i \in 1..Len(last.response.elements) |->
                         last.response.elements[Len(last.response.elements) + 1 - i]])

---------------------------------------------------------------------------
(* PortfolioController *)

\* a string of a request as the sequence of its characters: what length,
\* indexing and new Set(string) see of it
Characters(string) ==
    CASE string = "BTC"  -> <<"B", "T", "C">>
      [] string = "ETH"  -> <<"E", "T", "H">>
      [] string = "DOGE" -> <<"D", "O", "G", "E">>
      [] string = ""     -> << >>

\* symbolsQuery.split(',').map(s => s.trim())
split(symbolsQuery) ==
    CASE symbolsQuery = "BTC"     -> <<"BTC">>
      [] symbolsQuery = "BTC,ETH" -> <<"BTC", "ETH">>

\* @Query(name): the parameter of that name, undefined (here "") without one
Query(query, name) == IF name \in DOMAIN query THEN query[name] ELSE ""

\* the TradeResponseDto the controller builds from a Trade
TradeResponseDto(trade, duplicate) ==
    [id |-> trade.id, tradeId |-> trade.tradeId, symbol |-> trade.symbol,
     side |-> trade.side, duplicate |-> duplicate]

\* PortfolioController.addTrade finding the Trade: duplicate: true
controllerAddTradeExisting(dto) ==
    /\ getTradeByTradeId(dto.tradeId) # NoTrade
    /\ last' = [outcome |-> "answered",
                trade |-> getTradeByTradeId(dto.tradeId),
                response |-> TradeResponseDto(getTradeByTradeId(dto.tradeId), TRUE)]
    /\ UNCHANGED <<storeVars, latestPrices, rejected>>

\* PortfolioController.addTrade finding none: portfolioService.addTrade, which
\* returns the Trade or throws
controllerAddTradeNew(dto) ==
    /\ getTradeByTradeId(dto.tradeId) = NoTrade
    /\ addTrade(dto)

\* the body of the response to the last call of PortfolioController.addTrade:
\* duplicate: false with the Trade portfolioService.addTrade returned
addTradeResponse ==
    IF last.outcome = "answered" THEN last.response
    ELSE TradeResponseDto(last.trade, FALSE)

\* PortfolioController.getPortfolio: the symbol parameter, a string, is
\* handed to queryService.getPortfolio as its symbols
controllerGetPortfolio(query) ==
    Answer("controller.getPortfolio", query,
           getPortfolio(Characters(Query(query, "symbol"))))

\* PortfolioController.getPnl
controllerGetPnl(query) ==
    Answer("controller.getPnl", query,
           getPnl(IF Query(query, "symbols") # ""
                  THEN split(Query(query, "symbols"))
                  ELSE << >>))

\* PortfolioController.bulkUpdatePrices
bulkUpdatePrices(entries) == updatePrices(entries)

\* PortfolioController.reset
reset == clearAll

---------------------------------------------------------------------------
(* Requests *)

Prices == {Num(1, 0), Num(2, 0)}

\* BTC: small quantities at both prices, the large quantity at price 1;
\* ETH: one unit at price 2
Payloads ==
    [symbol : {"BTC"}, side : {BUY, SELL}, price : Prices,
     quantity : {Num(1, 0), Num(2, 0)}]
    \cup [symbol : {"BTC"}, side : {BUY, SELL}, price : {Num(1, 0)},
          quantity : {Num(1, BigExp)}]
    \cup [symbol : {"ETH"}, side : {BUY, SELL}, price : {Num(2, 0)},
          quantity : {Num(1, 0)}]

Dtos == {[tradeId |-> id] @@ p : id \in TradeIds, p \in Payloads}

\* external ids are opaque strings: a call carries an id already used or the
\* next unused one
Calls == {dto \in Dtos : dto.tradeId <= Len(trades) + 1}

Init ==
    /\ trades = << >>
    /\ tradeIdIndex = EmptyMap
    /\ positions = EmptyMap
    /\ pnlRecords = EmptyMap
    /\ realizedPnlAggregates = EmptyMap
    /\ latestPrices = initializeDefaultPrices
    /\ last = [outcome |-> "init", trade |-> NoTrade]
    /\ rejected = {}

Next ==
    \/ \E dto \in Calls : addTradeDuplicate(dto)
    \/ \E dto \in Calls : addTradeBuy(dto)
    \/ \E dto \in Calls : addTradeSell(dto)
    \/ \E dto \in Calls : addTradeRejected(dto)
    \/ clearAll

Spec == Init /\ [][Next]_vars

\* the requests of QuerySpec.  BTC has a price in the oracle: one unit at
\* both prices, bought and sold; DOGE has none until it is given one: one
\* unit and the small quantity 10^-BigExp, bought at price 1
QueryPayloads ==
    [symbol : {"BTC"}, side : {BUY, SELL}, price : Prices, quantity : {Num(1, 0)}]
    \cup [symbol : {"DOGE"}, side : {BUY}, price : {Num(1, 0)},
          quantity : {Num(1, 0), Num(1, -BigExp)}]

QueryCalls ==
    {dto \in {[tradeId |-> id] @@ p : id \in TradeIds, p \in QueryPayloads} :
        dto.tradeId <= Len(trades) + 1}

\* price updates sent: a first price for DOGE, a price of zero and a
\* negative price
PriceUpdates ==
    {<<"DOGE", Num(2, 0)>>, <<"BTC", Num(0, 0)>>, <<"DOGE", Num(-1, 0)>>}

\* symbols filters sent: none, and each symbol alone
Filters == {<< >>, <<"BTC">>, <<"DOGE">>}

QueryNext ==
    \/ \E dto \in QueryCalls : addTradeDuplicate(dto)
    \/ \E dto \in QueryCalls : addTradeBuy(dto)
    \/ \E dto \in QueryCalls : addTradeSell(dto)
    \/ \E dto \in QueryCalls : addTradeRejected(dto)
    \/ clearAll
    \/ \E update \in PriceUpdates : updatePrice(update[1], update[2])
    \/ \E update \in PriceUpdates : updatePriceRejected(update[1], update[2])
    \/ \E symbols \in Filters : getPortfolioCall(symbols)
    \/ \E symbols \in Filters : getPnlCall(symbols)
    \/ \E symbol \in {"", "BTC"} : getAllTradesCall(symbol)
    \/ \E tradeId \in TradeIds : getTradeByTradeIdCall(tradeId)

QuerySpec == Init /\ [][QueryNext]_vars

---------------------------------------------------------------------------
(* PortfolioService.addTrade statement by statement.  While a call has not  *)
(* returned, last holds where it stands: the Trade it built, the statement  *)
(* it is at (pc), the position object it works on and remainingQuantity.    *)

\* a handler that never ran on any request
Unguarded == TRUE

\* no handler is running: addTrade, updatePosition, handleBuy and handleSell
\* have no await and no callback, so that the event loop hands the next
\* request to a handler once the handler before it has returned or thrown
Idle == last.outcome # "running"

At(pc) == last.outcome = "running" /\ last.pc = pc

\* the position object of updatePosition is the object of the positions Map
\* when the Map has the symbol: what is assigned to it shows in the store
assigned(position) ==
    IF Has(positions, position.symbol)
    THEN MapSet(positions, position.symbol, position)
    ELSE positions

\* addTrade, existingTrade found
addTrade_existingTrade(dto) == Idle /\ addTradeDuplicate(dto)

\* addTrade up to storage.saveTrade(trade), and getPosition of updatePosition
addTrade_saveTrade(dto) ==
    /\ Idle
    /\ findTradeByTradeId(dto.tradeId) = NoTrade
    /\ LET trade == NewTrade(dto)
       IN  /\ trades' = Append(trades, trade)
           /\ tradeIdIndex' = MapSet(tradeIdIndex, trade.tradeId, trade)
           /\ last' = [outcome |-> "running", trade |-> trade,
                       pc |-> IF trade.side = BUY THEN "push" ELSE "check",
                       position |-> positionOf(trade.symbol),
                       remainingQuantity |-> trade.quantity]
    /\ UNCHANGED <<positions, pnlRecords, realizedPnlAggregates, latestPrices, rejected>>

\* handleBuy: position.fifoQueue.push(lot)
handleBuy_push ==
    /\ At("push")
    /\ LET position == [last.position EXCEPT !.fifoQueue =
                            Append(@, [quantity |-> last.trade.quantity,
                                       price |-> last.trade.price,
                                       tradeId |-> last.trade.id])]
       IN  /\ positions' = assigned(position)
           /\ last' = [last EXCEPT !.pc = "plus", !.position = position]
    /\ UNCHANGED <<trades, tradeIdIndex, pnlRecords, realizedPnlAggregates,
                   latestPrices, rejected>>

\* handleBuy: position.totalQuantity = position.totalQuantity.plus(trade.quantity)
handleBuy_totalQuantity ==
    /\ At("plus")
    /\ LET position == [last.position EXCEPT !.totalQuantity =
                            plus(@, last.trade.quantity)]
       IN  /\ positions' = assigned(position)
           /\ last' = [last EXCEPT !.pc = "averageAfterBuy", !.position = position]
    /\ UNCHANGED <<trades, tradeIdIndex, pnlRecords, realizedPnlAggregates,
                   latestPrices, rejected>>

\* handleBuy: position.averageEntryPrice, then savePosition and the return
handleBuy_averageEntryPrice ==
    /\ At("averageAfterBuy")
    /\ LET position == [last.position EXCEPT !.averageEntryPrice =
                            dividedBy(totalCost(last.position.fifoQueue),
                                      last.position.totalQuantity)]
       IN  /\ positions' = MapSet(positions, position.symbol, position)
           /\ last' = [outcome |-> "recorded", trade |-> last.trade]
    /\ UNCHANGED <<trades, tradeIdIndex, pnlRecords, realizedPnlAggregates,
                   latestPrices, rejected>>

\* handleSell: the balance check throws BadRequestException
handleSell_throw ==
    /\ At("check")
    /\ insufficient(last.position, last.trade)
    /\ last' = [outcome |-> "insufficient", trade |-> last.trade]
    /\ rejected' = rejected \cup {last.trade.tradeId}
    /\ UNCHANGED <<storeVars, latestPrices>>

\* handleSell: the balance check passes
handleSell_check ==
    /\ At("check")
    /\ ~insufficient(last.position, last.trade)
    /\ last' = [last EXCEPT !.pc = "while"]
    /\ UNCHANGED <<storeVars, latestPrices, rejected>>

\* handleSell: the loop goes on
whileCondition ==
    greaterThan(last.remainingQuantity, Zero) /\ Len(last.position.fifoQueue) > 0

\* handleSell: the oldest lot is consumed whole
fullLot ==
    lessThanOrEqualTo(last.position.fifoQueue[1].quantity, last.remainingQuantity)

\* handleSell, in the loop: storage.savePnlRecord of the full or partial lot
handleSell_savePnlRecord ==
    /\ At("while")
    /\ whileCondition
    /\ LET oldestLot == last.position.fifoQueue[1]
           st == savePnlRecord([records |-> pnlRecords,
                                aggregates |-> realizedPnlAggregates],
                               PnlRecord(last.trade, oldestLot,
                                         IF fullLot THEN oldestLot.quantity
                                         ELSE last.remainingQuantity))
       IN  /\ pnlRecords' = st.records
           /\ realizedPnlAggregates' = st.aggregates
    /\ last' = [last EXCEPT !.pc = "consume"]
    /\ UNCHANGED <<trades, tradeIdIndex, positions, latestPrices, rejected>>

\* handleSell, in the loop: remainingQuantity and fifoQueue.shift() of a full
\* lot, oldestLot.quantity and remainingQuantity of a partial one
handleSell_consume ==
    /\ At("consume")
    /\ LET oldestLot == last.position.fifoQueue[1]
           position ==
               [last.position EXCEPT !.fifoQueue =
                   IF fullLot THEN Tail(@)
                   ELSE <<[oldestLot EXCEPT !.quantity =
                              minus(oldestLot.quantity, last.remainingQuantity)]>>
                        \o Tail(@)]
       IN  /\ positions' = assigned(position)
           /\ last' = [last EXCEPT
                          !.pc = "while",
                          !.position = position,
                          !.remainingQuantity =
                              IF fullLot THEN minus(@, oldestLot.quantity) ELSE Zero]
    /\ UNCHANGED <<trades, tradeIdIndex, pnlRecords, realizedPnlAggregates,
                   latestPrices, rejected>>

\* handleSell, past the loop:
\* position.totalQuantity = position.totalQuantity.minus(trade.quantity)
handleSell_totalQuantity ==
    /\ At("while")
    /\ ~whileCondition
    /\ LET position == [last.position EXCEPT !.totalQuantity =
                            minus(@, last.trade.quantity)]
       IN  /\ positions' = assigned(position)
           /\ last' = [last EXCEPT !.pc = "averageAfterSell", !.position = position]
    /\ UNCHANGED <<trades, tradeIdIndex, pnlRecords, realizedPnlAggregates,
                   latestPrices, rejected>>

\* handleSell: position.averageEntryPrice, then savePosition and the return
handleSell_averageEntryPrice ==
    /\ At("averageAfterSell")
    /\ LET position ==
               [last.position EXCEPT !.averageEntryPrice =
                   IF greaterThan(last.position.totalQuantity, Zero)
                   THEN dividedBy(totalCost(last.position.fifoQueue),
                                  last.position.totalQuantity)
                   ELSE ZeroQuotient]
       IN  /\ positions' = MapSet(positions, position.symbol, position)
           /\ last' = [outcome |-> "recorded", trade |-> last.trade]
    /\ UNCHANGED <<trades, tradeIdIndex, pnlRecords, realizedPnlAggregates,
                   latestPrices, rejected>>

\* the requests of StatementSpec: BTC bought by the unit at 1 and at 2, sold
\* by one unit and by two
StatementPayloads ==
    {[symbol |-> "BTC", side |-> BUY, price |-> Num(1, 0), quantity |-> Num(1, 0)],
     [symbol |-> "BTC", side |-> BUY, price |-> Num(2, 0), quantity |-> Num(2, 0)],
     [symbol |-> "BTC", side |-> SELL, price |-> Num(2, 0), quantity |-> Num(1, 0)],
     [symbol |-> "BTC", side |-> SELL, price |-> Num(1, 0), quantity |-> Num(2, 0)]}

StatementCalls ==
    {dto \in {[tradeId |-> id] @@ p : id \in TradeIds, p \in StatementPayloads} :
        dto.tradeId <= Len(trades) + 1}

\* a handler runs from the request to its return; the reads and addTrade on
\* an existing Trade are one statement long
StatementNext ==
    \/ \E dto \in StatementCalls : addTrade_existingTrade(dto)
    \/ \E dto \in StatementCalls : addTrade_saveTrade(dto)
    \/ handleBuy_push
    \/ handleBuy_totalQuantity
    \/ handleBuy_averageEntryPrice
    \/ handleSell_throw
    \/ handleSell_check
    \/ handleSell_savePnlRecord
    \/ handleSell_consume
    \/ handleSell_totalQuantity
    \/ handleSell_averageEntryPrice
    \/ Idle /\ getPortfolioCall(<< >>)
    \/ Idle /\ getPnlCall(<< >>)
    \/ Idle /\ getAllTradesCall("")

StatementSpec == Init /\ [][StatementNext]_vars

\* the requests of ReopenSpec: BTC bought at 1 by the large quantity and by
\* the unit, sold by either, and bought at 2 by two units
ReopenPayloads ==
    {[symbol |-> "BTC", side |-> BUY, price |-> Num(1, 0), quantity |-> Num(1, BigExp)],
     [symbol |-> "BTC", side |-> BUY, price |-> Num(1, 0), quantity |-> Num(1, 0)],
     [symbol |-> "BTC", side |-> SELL, price |-> Num(1, 0), quantity |-> Num(1, BigExp)],
     [symbol |-> "BTC", side |-> SELL, price |-> Num(1, 0), quantity |-> Num(1, 0)],
     [symbol |-> "BTC", side |-> BUY, price |-> Num(2, 0), quantity |-> Num(2, 0)]}

\* one call more than the other specifications take: a closure that leaves a
\* lot takes three trades, the BUY that follows is the fourth
ReopenCalls ==
    {dto \in {[tradeId |-> id] @@ p : id \in 1..(MaxTrades + 1), p \in ReopenPayloads} :
        dto.tradeId <= Len(trades) + 1}

ReopenNext == \E dto \in ReopenCalls : addTrade(dto)

ReopenSpec == Init /\ [][ReopenNext]_vars

\* the requests of ValuationSpec: BTC and ETH, which have a market price;
\* BTC bought at 1 by the large quantity and by the unit, ETH at 2 by the unit
ValuationPayloads ==
    {[symbol |-> "BTC", side |-> BUY, price |-> Num(1, 0), quantity |-> Num(1, BigExp)],
     [symbol |-> "BTC", side |-> BUY, price |-> Num(1, 0), quantity |-> Num(1, 0)],
     [symbol |-> "BTC", side |-> SELL, price |-> Num(1, 0), quantity |-> Num(1, 0)],
     [symbol |-> "ETH", side |-> BUY, price |-> Num(2, 0), quantity |-> Num(1, 0)],
     [symbol |-> "ETH", side |-> SELL, price |-> Num(2, 0), quantity |-> Num(1, 0)]}

ValuationCalls ==
    {dto \in {[tradeId |-> id] @@ p : id \in TradeIds, p \in ValuationPayloads} :
        dto.tradeId <= Len(trades) + 1}

ValuationNext ==
    \/ \E dto \in ValuationCalls : addTrade(dto)
    \/ \E symbols \in {<< >>, <<"BTC">>, <<"ETH">>} : getPortfolioCall(symbols)

ValuationSpec == Init /\ [][ValuationNext]_vars

\* the request carries the tradeId of a stored Trade and another symbol,
\* side, price or quantity
DifferentPayload(dto) ==
    LET existingTrade == findTradeByTradeId(dto.tradeId)
    IN  /\ existingTrade # NoTrade
        /\ \/ dto.symbol # existingTrade.symbol
           \/ dto.side # existingTrade.side
           \/ toDecimal(dto.price) # existingTrade.price
           \/ toDecimal(dto.quantity) # existingTrade.quantity

\* requests with a new tradeId, and requests that send a known tradeId again
\* with a different payload
ResubmitNext ==
    \/ \E dto \in QueryCalls : addTradeBuy(dto)
    \/ \E dto \in QueryCalls : addTradeSell(dto)
    \/ \E dto \in QueryCalls : addTradeRejected(dto)
    \/ \E dto \in QueryCalls : DifferentPayload(dto) /\ addTradeDuplicate(dto)

ResubmitSpec == Init /\ [][ResubmitNext]_vars

\* trades are recorded, the array of getAllTrades is taken and changed by its
\* caller while it has no more than MaxTrades elements, and the store is
\* read again
CallerNext ==
    \/ \E dto \in QueryCalls : addTrade(dto)
    \/ storageGetAllTrades
    \/ HoldsArray /\ Len(last.response.elements) < MaxTrades /\ callerPush
    \/ callerPop
    \/ callerReverse
    \/ getAllTradesCall("")
    \/ \E tradeId \in TradeIds : getTradeByTradeIdCall(tradeId)

CallerSpec == Init /\ [][CallerNext]_vars

\* the number of so many thousandths, as toNumber returns it
Thousandths(n) ==
    [hn |-> 0, hd |-> 1, int |-> Sign(n) * (Abs(n) \div 1000),
     frac |-> Sign(n) * (Abs(n) % 1000) * (E8 \div 1000)]

\* P&L figures of the entries of the two lists: 0.004, -0.004, 0.006, 1.004
Amounts == {Thousandths(4), Thousandths(-4), Thousandths(6), Thousandths(1004)}

\* realizedPnl lists of getPnl of up to two symbols: BTC and ETH closed by
\* the quantity 0.004
RealizedLists ==
    LET entry(s, x) == [symbol |-> s, realizedPnl |-> x,
                        closedQuantity |-> Thousandths(4)]
    IN  {<< >>}
        \cup {<<entry("BTC", x)>> : x \in Amounts}
        \cup {<<entry("BTC", x), entry("ETH", y)>> : x \in Amounts, y \in Amounts}

\* the market prices of a symbol bought at 4
MarketPrices == {2, 6, 7}

\* unrealizedPnl lists of getPnl of up to two symbols: DOGE and ETH held by
\* the quantity 0.002 bought at 4, at a market price of 2, 6 or 7
UnrealizedLists ==
    LET entry(s, price) ==
            [symbol |-> s, unrealizedPnl |-> Thousandths((price - 4) * 2),
             currentQuantity |-> Thousandths(2),
             averageEntryPrice |-> Thousandths(4000),
             currentPrice |-> Thousandths(price * 1000)]
    IN  {<< >>}
        \cup {<<entry("DOGE", x)>> : x \in MarketPrices}
        \cup {<<entry("DOGE", x), entry("ETH", y)>> :
                 x \in MarketPrices, y \in MarketPrices}

\* the last statements of getPnl on the two lists
pnlTotalsCall(realizedPnl, unrealizedPnl) ==
    Answer("pnlTotals", <<realizedPnl, unrealizedPnl>>,
           pnlTotals(realizedPnl, unrealizedPnl))

TotalsNext ==
    \E realizedPnl \in RealizedLists, unrealizedPnl \in UnrealizedLists :
        pnlTotalsCall(realizedPnl, unrealizedPnl)

TotalsSpec == Init /\ [][TotalsNext]_vars

\* the small quantity 10^-BigExp
Tiny == Num(1, -BigExp)

\* the requests of ControllerSpec.  BTC bought at 2 and sold at 1, by the
\* unit and by the small quantity; ETH and DOGE bought by the unit
ControllerPayloads ==
    {[symbol |-> "BTC", side |-> BUY, price |-> Num(2, 0), quantity |-> Num(1, 0)],
     [symbol |-> "BTC", side |-> SELL, price |-> Num(1, 0), quantity |-> Num(1, 0)],
     [symbol |-> "BTC", side |-> BUY, price |-> Num(2, 0), quantity |-> Tiny],
     [symbol |-> "BTC", side |-> SELL, price |-> Num(1, 0), quantity |-> Tiny],
     [symbol |-> "ETH", side |-> BUY, price |-> Num(2, 0), quantity |-> Num(1, 0)],
     [symbol |-> "DOGE", side |-> BUY, price |-> Num(1, 0), quantity |-> Num(1, 0)]}

ControllerCalls ==
    {dto \in {[tradeId |-> id] @@ p : id \in TradeIds, p \in ControllerPayloads} :
        dto.tradeId <= Len(trades) + 1}

\* query strings sent to GET /portfolio/positions and GET /portfolio/pnl:
\* none, ?symbol=BTC, ?symbols=BTC,ETH
QueryStrings ==
    {<< >>, [symbol |-> "BTC"], [symbols |-> "BTC,ETH"]}

\* bodies sent to POST /portfolio/market-prices/bulk
PriceBatches ==
    {<< <<"DOGE", Num(2, 0)>> >>,
     << <<"DOGE", Num(2, 0)>>, <<"BTC", Num(0, 0)>> >>}

ControllerNext ==
    \/ \E dto \in ControllerCalls : controllerAddTradeExisting(dto)
    \/ \E dto \in ControllerCalls : controllerAddTradeNew(dto)
    \/ \E query \in QueryStrings : controllerGetPortfolio(query)
    \/ \E query \in QueryStrings : controllerGetPnl(query)
    \/ \E entries \in PriceBatches : bulkUpdatePrices(entries)
    \/ reset

ControllerSpec == Init /\ [][ControllerNext]_vars

---------------------------------------------------------------------------
(* Notions the properties are stated with *)

\* the external id is the tradeId of a Trade of the log
InLog(tradeId) == \E i \in 1..Len(trades) : trades[i].tradeId = tradeId

LoggedTrade(tradeId) == trades[CHOOSE i \in 1..Len(trades) : trades[i].tradeId = tradeId]

\* every action leaves in last the outcome of its call and the Trade the call
\* returned (duplicate, recorded) or had built when it threw (insufficient);
\* a step is a call of addTrade when it leaves one of these outcomes
IsAddTrade == last'.outcome \in {"duplicate", "recorded", "insufficient"}

\* the step built a new SELL Trade for more than the symbol held
Oversell ==
    /\ last'.outcome \in {"recorded", "insufficient"}
    /\ last'.trade.side = SELL
    /\ cmp(positionOf(last'.trade.symbol).totalQuantity, last'.trade.quantity) < 0

\* the step built a new SELL Trade for no more than the symbol held
CoveredSell ==
    /\ last'.outcome \in {"recorded", "insufficient"}
    /\ last'.trade.side = SELL
    /\ cmp(positionOf(last'.trade.symbol).totalQuantity, last'.trade.quantity) >= 0

RECURSIVE QuantitySum(_)
\* the exact (unrounded) sum of the quantity fields of a sequence
QuantitySum(seq) ==
    IF seq = << >> THEN Zero
    ELSE LET rest == QuantitySum(Tail(seq))
         IN  [hi |-> seq[1].quantity.hi + rest.hi, lo |-> seq[1].quantity.lo + rest.lo,
              fr |-> seq[1].quantity.fr + rest.fr]

RECURSIVE PnlSum(_)
\* the exact (unrounded) sum of the pnl fields of a sequence of records
PnlSum(seq) ==
    IF seq = << >> THEN Zero
    ELSE LET rest == PnlSum(Tail(seq))
         IN  [hi |-> seq[1].pnl.hi + rest.hi, lo |-> seq[1].pnl.lo + rest.lo,
              fr |-> seq[1].pnl.fr + rest.fr]

\* the value has at most Precision significant digits: rounding keeps it
Fits(x) == finalise(x) = x

\* every quantity traded for the symbol is a unit quantity (below 10^BigExp,
\* and no 10^-BigExp part), so that no total,
\* remainder or lot computed for it needs more than Precision digits
OrdinaryQuantities(symbol) ==
    \A i \in 1..Len(trades) :
        trades[i].symbol = symbol =>
            trades[i].quantity.hi = 0 /\ trades[i].quantity.fr = 0

\* every partial sum of the record log has at most Precision digits
PartialSumsFit(records) ==
    \A k \in 1..Len(records) :
        /\ Fits(PnlSum(SubSeq(records, 1, k)))
        /\ Fits(QuantitySum(SubSeq(records, 1, k)))

IsPrefix(a, b) == Len(a) <= Len(b) /\ SubSeq(b, 1, Len(a)) = a

RecordsOf(map, symbol) == IF Has(map, symbol) THEN map[symbol] ELSE << >>

\* after is before without its first k lots, the first lot left possibly reduced
IsFifoRemainder(before, after) ==
    \E k \in 0..Len(before) :
        /\ Len(after) = Len(before) - k
        /\ \A i \in 1..Len(after) :
              IF i = 1
              THEN /\ after[1].price = before[k + 1].price
                   /\ after[1].tradeId = before[k + 1].tradeId
                   /\ cmp(after[1].quantity, before[k + 1].quantity) <= 0
                   /\ cmp(after[1].quantity, Zero) > 0
              ELSE after[i] = before[k + i]

\* the number of lots a sell of this quantity reaches: the shortest prefix of
\* the queue whose quantities cover it (the whole queue if none does)
LotsTouched(queue, quantity) ==
    IF \E k \in 0..Len(queue) : cmp(QuantitySum(SubSeq(queue, 1, k)), quantity) >= 0
    THEN CHOOSE k \in 0..Len(queue) :
            /\ cmp(QuantitySum(SubSeq(queue, 1, k)), quantity) >= 0
            /\ \A j \in 0..(k - 1) : cmp(QuantitySum(SubSeq(queue, 1, j)), quantity) < 0
    ELSE Len(queue)

---------------------------------------------------------------------------
(* Properties *)

\* C1: a call whose external trade id is already recorded returns the Trade
\* stored for that id (same internal id) and leaves the whole store as it was.
C1_Idempotence ==
    [][(IsAddTrade /\ InLog(last'.trade.tradeId)) =>
          /\ last'.outcome = "duplicate"
          /\ last'.trade.id = LoggedTrade(last'.trade.tradeId).id
          /\ UNCHANGED storeVars]_vars

\* a duplicate call has been answered while the symbol holds a position
C1_Witness ==
    /\ last.outcome = "duplicate"
    /\ Has(positions, last.trade.symbol)
    /\ Len(trades) >= 2

\* C2: a SELL for more than the symbol holds signals InsufficientBalance and
\* changes nothing in the store: log, index, positions, records, aggregates.
C2_RejectedSellChangesNothing ==
    [][Oversell => (last'.outcome = "insufficient" /\ UNCHANGED storeVars)]_vars

\* C3: a SELL that failed is not persisted, so a later call that submits it
\* again under the same external id, while the symbol holds enough, is
\* applied as a new trade: lots are consumed and records emitted.
C3_RejectedIdIsNew ==
    [][(/\ IsAddTrade
        /\ last'.trade.tradeId \in rejected
        /\ last'.trade.side = SELL
        /\ cmp(positionOf(last'.trade.symbol).totalQuantity, last'.trade.quantity) >= 0) =>
          /\ last'.outcome = "recorded"
          /\ Len(RecordsOf(pnlRecords', last'.trade.symbol))
                 > Len(RecordsOf(pnlRecords, last'.trade.symbol))]_vars

\* C4: after a SELL rejected for insufficient balance the positions (lot
\* queues, totalQuantity, averageEntryPrice) are unchanged, no Position is
\* created, and no record or aggregate changes.
C4_NoPartialSell ==
    [][Oversell =>
          /\ last'.outcome = "insufficient"
          /\ UNCHANGED <<positions, pnlRecords, realizedPnlAggregates>>]_vars

\* a SELL has been rejected for a symbol that holds a positive quantity
C4_Witness ==
    /\ last.outcome = "insufficient"
    /\ Has(positions, last.trade.symbol)
    /\ greaterThan(positions[last.trade.symbol].totalQuantity, Zero)
    /\ positions[last.trade.symbol].fifoQueue # << >>

\* C5: after a SELL that brings a symbol's totalQuantity to 0 the store holds
\* no Position for the symbol, and its aggregate is still there.
C5_ClosedPositionRemoved ==
    (last.outcome = "recorded" /\ last.trade.side = SELL) =>
        /\ Has(realizedPnlAggregates, last.trade.symbol)
        /\ \/ ~Has(positions, last.trade.symbol)
           \/ positions[last.trade.symbol].totalQuantity # Zero

\* C6 as stated: every stored Position has totalQuantity equal to the exact
\* sum of the quantities of the lots in its fifoQueue.
C6_TotalQuantityIsLotSum ==
    \A s \in DOMAIN positions :
        positions[s].totalQuantity = QuantitySum(positions[s].fifoQueue)

\* C6 amended: totalQuantity is the exact sum of the lot quantities for every
\* symbol whose quantities stay within the precision of the decimal type.
C6_TotalQuantityIsLotSumWithinPrecision ==
    \A s \in DOMAIN positions :
        OrdinaryQuantities(s) =>
            positions[s].totalQuantity = QuantitySum(positions[s].fifoQueue)

\* two buys and a sell that took part of the first lot: two lots are left
C6_Witness ==
    /\ last.outcome = "recorded"
    /\ last.trade.side = SELL
    /\ Has(positions, last.trade.symbol)
    /\ OrdinaryQuantities(last.trade.symbol)
    /\ Len(positions[last.trade.symbol].fifoQueue) = 2
    /\ positions[last.trade.symbol].fifoQueue[1].tradeId = 1
    /\ positions[last.trade.symbol].totalQuantity = toDecimal(Num(2, 0))

\* C7 as stated: for every symbol the aggregate is the exact rollup of the
\* record log: totalPnl the sum of pnl, totalQuantity the sum of quantity, and
\* there is an aggregate exactly when there is a record.
C7_AggregateIsRollup ==
    \A s \in Symbols :
        /\ Has(realizedPnlAggregates, s) <=> RecordsOf(pnlRecords, s) # << >>
        /\ Has(realizedPnlAggregates, s) =>
              /\ realizedPnlAggregates[s].totalPnl = PnlSum(pnlRecords[s])
              /\ realizedPnlAggregates[s].totalQuantity = QuantitySum(pnlRecords[s])

\* C7 amended: there is an aggregate exactly when there is a record, and the
\* aggregate is the exact rollup of the record log as long as every partial
\* sum of the log stays within the precision of the decimal type.
C7_AggregateIsRollupWithinPrecision ==
    \A s \in Symbols :
        /\ Has(realizedPnlAggregates, s) <=> RecordsOf(pnlRecords, s) # << >>
        /\ (Has(realizedPnlAggregates, s) /\ PartialSumsFit(pnlRecords[s])) =>
              /\ realizedPnlAggregates[s].totalPnl = PnlSum(pnlRecords[s])
              /\ realizedPnlAggregates[s].totalQuantity = QuantitySum(pnlRecords[s])

\* two records with a gain and the aggregate holding their sum
C7_Witness ==
    \E s \in DOMAIN realizedPnlAggregates :
        /\ Len(pnlRecords[s]) = 2
        /\ PartialSumsFit(pnlRecords[s])
        /\ greaterThan(pnlRecords[s][1].pnl, Zero)
        /\ greaterThan(pnlRecords[s][2].pnl, Zero)
        /\ realizedPnlAggregates[s].totalPnl = PnlSum(pnlRecords[s])

\* C8: an accepted SELL leaves the queue it found without its oldest lots:
\* what remains is a suffix, in the same order, of which only the first lot
\* may have a smaller quantity.
C8_StrictFifo ==
    [][CoveredSell =>
          /\ last'.outcome = "recorded"
          /\ Has(positions', last'.trade.symbol)
          /\ IsFifoRemainder(positionOf(last'.trade.symbol).fifoQueue,
                             positions'[last'.trade.symbol].fifoQueue)]_vars

\* a SELL has consumed the older, dearer lot and left the newer, cheaper one
C8_Witness ==
    /\ last.outcome = "recorded"
    /\ last.trade.side = SELL
    /\ Has(pnlRecords, last.trade.symbol)
    /\ Has(positions, last.trade.symbol)
    /\ Len(positions[last.trade.symbol].fifoQueue) = 1
    /\ LET lot == positions[last.trade.symbol].fifoQueue[1]
           rec == pnlRecords[last.trade.symbol][Len(pnlRecords[last.trade.symbol])]
       IN  /\ lessThan(lot.price, rec.buyPrice)
           /\ lot.tradeId = 2

\* C9: no stored Position has a negative totalQuantity.
C9_NoShortPosition ==
    \A s \in DOMAIN positions : ~lessThan(positions[s].totalQuantity, Zero)

\* a SELL of exactly the held quantity has been accepted: the holding is 0
C9_Witness ==
    /\ last.outcome = "recorded"
    /\ last.trade.side = SELL
    /\ Has(positions, last.trade.symbol)
    /\ positions[last.trade.symbol].totalQuantity = Zero

\* C10: an accepted SELL appends one record per lot it reaches, in queue
\* order, and no call changes or removes a record already stored.
C10_OneRecordPerLot ==
    [][IsAddTrade =>
          /\ \A s \in Symbols :
                IsPrefix(RecordsOf(pnlRecords, s), RecordsOf(pnlRecords', s))
          /\ CoveredSell =>
                LET queue == positionOf(last'.trade.symbol).fifoQueue
                    old == RecordsOf(pnlRecords, last'.trade.symbol)
                    new == RecordsOf(pnlRecords', last'.trade.symbol)
                    n == LotsTouched(queue, last'.trade.quantity)
                IN  /\ Len(new) = Len(old) + n
                    /\ \A i \in 1..n :
                          /\ new[Len(old) + i].buyPrice = queue[i].price
                          /\ cmp(new[Len(old) + i].quantity, queue[i].quantity) <= 0]_vars

\* a SELL has consumed one lot whole and part of the next: two records, one
\* lot left
C10_Witness ==
    /\ last.outcome = "recorded"
    /\ last.trade.side = SELL
    /\ Len(trades) = 3
    /\ Len(RecordsOf(pnlRecords, last.trade.symbol)) = 2
    /\ Has(positions, last.trade.symbol)
    /\ Len(positions[last.trade.symbol].fifoQueue) = 1
    /\ positions[last.trade.symbol].fifoQueue[1].quantity = toDecimal(Num(1, 0))
    /\ last.trade.quantity = toDecimal(Num(2, 0))

\* k times the value, exactly
Scaled(x, k) == [hi |-> x.hi * k, lo |-> x.lo * k, fr |-> x.fr * k]

RECURSIVE Remaining(_, _, _)
\* what is left of a sell quantity once the first k lots were taken whole
Remaining(queue, quantity, k) ==
    IF k = 0 THEN quantity
    ELSE minus(Remaining(queue, quantity, k - 1), queue[k].quantity)

RECURSIVE CostSum(_)
\* the exact (unrounded) sum of quantity * price over the lots; prices are
\* below 10^BigExp
CostSum(queue) ==
    IF queue = << >> THEN Zero
    ELSE LET rest == CostSum(Tail(queue))
             cost == Scaled(queue[1].quantity, queue[1].price.lo)
         IN  [hi |-> cost.hi + rest.hi, lo |-> cost.lo + rest.lo, fr |-> cost.fr + rest.fr]

RECURSIVE Terminating(_)
\* 1/d has a finite decimal expansion: d has no prime factor but 2 and 5
Terminating(d) ==
    IF d = 1 THEN TRUE
    ELSE IF d % 2 = 0 THEN Terminating(d \div 2)
    ELSE IF d % 5 = 0 THEN Terminating(d \div 5)
    ELSE FALSE

\* the quotient q, as the decimal type holds it, times total is cost: the
\* division was exact and q is cost / total
QuotientTimesIs(q, total, cost) ==
    /\ Terminating(q.den)
    /\ CASE q.e = 0  -> /\ q.num * total.hi = cost.hi * q.den
                        /\ q.num * total.lo = cost.lo * q.den
                        /\ q.num * total.fr = cost.fr * q.den
         [] q.e = 1  -> /\ total.hi = 0 /\ cost.lo = 0
                        /\ q.num * total.lo = cost.hi * q.den
         [] OTHER    -> /\ total.lo = 0 /\ cost.hi = 0
                        /\ q.num * total.hi = cost.lo * q.den

\* the trade log holds one Trade per external id and the index maps exactly
\* the ids of the log, each to its Trade
LogKeyedByTradeId ==
    /\ \A i, j \in 1..Len(trades) : trades[i].tradeId = trades[j].tradeId => i = j
    /\ DOMAIN tradeIdIndex = {trades[i].tradeId : i \in 1..Len(trades)}
    /\ \A i \in 1..Len(trades) : tradeIdIndex[trades[i].tradeId] = trades[i]

\* what the store holds for a symbol: Position, record log and aggregate
Holding(pos, recs, aggs, s) ==
    <<Has(pos, s), IF Has(pos, s) THEN pos[s] ELSE EmptyPosition(s),
      RecordsOf(recs, s),
      Has(aggs, s), IF Has(aggs, s) THEN aggs[s] ELSE [totalPnl |-> Zero, totalQuantity |-> Zero]>>

\* C11: each record an accepted SELL emits has the buyPrice of the lot it
\* consumed, the sellPrice of the SELL, the quantity taken from the lot (the
\* whole lot, or what was left to sell for the last lot when it is taken in
\* part) and pnl = (sellPrice - buyPrice) * quantity, negative for a loss.
C11_RecordFields ==
    [][CoveredSell =>
          LET queue == positionOf(last'.trade.symbol).fifoQueue
              old == RecordsOf(pnlRecords, last'.trade.symbol)
              new == RecordsOf(pnlRecords', last'.trade.symbol)
              n == Len(new) - Len(old)
              left == positions'[last'.trade.symbol].fifoQueue
          IN  /\ n <= Len(queue)
              /\ \A i \in 1..n :
                    LET rec == new[Len(old) + i]
                        whole == i < n \/ Len(left) = Len(queue) - n
                    IN  /\ rec.symbol = last'.trade.symbol
                        /\ rec.buyPrice = queue[i].price
                        /\ rec.sellPrice = last'.trade.price
                        /\ rec.quantity =
                              IF whole THEN queue[i].quantity
                              ELSE Remaining(queue, last'.trade.quantity, n - 1)
                        /\ rec.pnl = Scaled(rec.quantity,
                                            rec.sellPrice.lo - rec.buyPrice.lo)]_vars

\* a SELL below cost has taken one lot whole and part of the next: two
\* records with a loss, the second for what was left to sell
C11_Witness ==
    /\ last.outcome = "recorded"
    /\ last.trade.side = SELL
    /\ Len(RecordsOf(pnlRecords, last.trade.symbol)) = 2
    /\ lessThan(pnlRecords[last.trade.symbol][1].pnl, Zero)
    /\ lessThan(pnlRecords[last.trade.symbol][2].pnl, Zero)
    /\ Len(positions[last.trade.symbol].fifoQueue) = 1
    /\ positions[last.trade.symbol].fifoQueue[1].tradeId = 2
    /\ lessThan(pnlRecords[last.trade.symbol][2].quantity, last.trade.quantity)

\* C12 as stated: for every stored Position averageEntryPrice * totalQuantity
\* is the sum of lot.quantity * lot.price, and averageEntryPrice is zero when
\* totalQuantity is zero.
C12_AverageTimesTotalIsCost ==
    \A s \in DOMAIN positions :
        IF positions[s].totalQuantity = Zero
        THEN positions[s].averageEntryPrice = ZeroQuotient
        ELSE QuotientTimesIs(positions[s].averageEntryPrice,
                             positions[s].totalQuantity,
                             CostSum(positions[s].fifoQueue))

\* C12 amended: averageEntryPrice is zero when totalQuantity is zero, and
\* otherwise the quotient of the sum of lot.quantity * lot.price over the
\* current lots by totalQuantity, which the decimal type rounds (for symbols
\* whose quantities stay within its precision the fraction is that of the
\* exact sums).
C12_AverageIsQuotientOfLots ==
    \A s \in DOMAIN positions :
        IF positions[s].totalQuantity = Zero
        THEN positions[s].averageEntryPrice = ZeroQuotient
        ELSE OrdinaryQuantities(s) =>
                /\ positions[s].averageEntryPrice.e = 0
                /\ positions[s].averageEntryPrice.num * positions[s].totalQuantity.lo
                      = CostSum(positions[s].fifoQueue).lo
                            * positions[s].averageEntryPrice.den

\* a SELL has left two lots of different prices: the average lies between
C12_Witness ==
    /\ last.outcome = "recorded"
    /\ last.trade.side = SELL
    /\ Has(positions, last.trade.symbol)
    /\ OrdinaryQuantities(last.trade.symbol)
    /\ Len(positions[last.trade.symbol].fifoQueue) = 2
    /\ positions[last.trade.symbol].fifoQueue[1].price
          # positions[last.trade.symbol].fifoQueue[2].price
    /\ positions[last.trade.symbol].averageEntryPrice.den = 2

\* C13: no trade deletes or resets an aggregate: it stays for its symbol with
\* a closed quantity and record count that never go down, through the
\* position going to zero and a later BUY; clearAll removes it.
C13_AggregatePersists ==
    [][/\ IsAddTrade =>
             \A s \in DOMAIN realizedPnlAggregates :
                /\ Has(realizedPnlAggregates', s)
                /\ cmp(realizedPnlAggregates'[s].totalQuantity,
                       realizedPnlAggregates[s].totalQuantity) >= 0
                /\ (last'.outcome # "recorded" \/ last'.trade.side # SELL
                        \/ last'.trade.symbol # s)
                      => realizedPnlAggregates'[s] = realizedPnlAggregates[s]
       /\ last'.outcome = "cleared" => realizedPnlAggregates' = EmptyMap]_vars

\* a BUY has reopened a symbol sold down to zero; its aggregate is there
C13_Witness ==
    /\ last.outcome = "recorded"
    /\ last.trade.side = BUY
    /\ Len(trades) = 3
    /\ trades[2].side = SELL
    /\ trades[2].symbol = last.trade.symbol
    /\ Has(realizedPnlAggregates, last.trade.symbol)
    /\ Len(positions[last.trade.symbol].fifoQueue) = 1
    /\ positions[last.trade.symbol].fifoQueue[1].tradeId = 3
    /\ positions[last.trade.symbol].totalQuantity = last.trade.quantity

\* C14: the log holds at most one Trade per external trade id, the index
\* maps exactly the ids of the log to their Trades, and no call of addTrade
\* removes or alters a Trade of the log.
C14_LogAppendOnly ==
    [][/\ LogKeyedByTradeId'
       /\ IsAddTrade => IsPrefix(trades, trades')]_vars

\* a call with a recorded id has been answered with three Trades in the log
C14_Witness ==
    /\ last.outcome = "duplicate"
    /\ Len(trades) = 3
    /\ last.trade = trades[1]

\* C15: a call of addTrade for one symbol, whatever its outcome, leaves the
\* Position, the record log and the aggregate of every other symbol as they
\* were.
C15_SymbolIndependence ==
    [][IsAddTrade =>
          \A s \in Symbols \ {last'.trade.symbol} :
             Holding(positions', pnlRecords', realizedPnlAggregates', s)
                = Holding(positions, pnlRecords, realizedPnlAggregates, s)]_vars

\* a SELL of one symbol has been recorded while the other holds a position
C15_Witness ==
    /\ last.outcome = "recorded"
    /\ last.trade.side = SELL
    /\ Has(pnlRecords, last.trade.symbol)
    /\ \E s \in DOMAIN positions :
          /\ s # last.trade.symbol
          /\ positions[s].fifoQueue # << >>

\* the step is a call of the Query Engine
IsQuery == last'.outcome \in {"getPortfolio", "getPnl", "getAllTrades", "getTradeByTradeId"}

\* the symbols of the entries of a response list
SymbolsOf(list) == {list[i].symbol : i \in 1..Len(list)}

\* the entry of a response list for a symbol
EntryOf(list, s) == list[CHOOSE i \in 1..Len(list) : list[i].symbol = s]

\* a symbols filter lets the symbol through
Passes(symbols, s) == Len(symbols) = 0 \/ s \in Range(symbols)

\* the number of a response is greater than 0
IsPositiveNumber(x) ==
    \/ x.hn > 0
    \/ x.hn = 0 /\ (x.int > 0 \/ (x.int = 0 /\ x.frac > 0))

\* the symbols with a stored Position of totalQuantity > 0 that pass the filter
OpenSymbols(symbols) ==
    {s \in DOMAIN positions :
        Passes(symbols, s) /\ greaterThan(positions[s].totalQuantity, Zero)}

\* the symbols with a stored Position of totalQuantity zero
ClosedSymbols == {s \in DOMAIN positions : positions[s].totalQuantity = Zero}

\* C16: getPortfolio, getPnl, getAllTrades and getTradeByTradeId leave the
\* trade log, the index, the positions, the records, the aggregates and the
\* market prices as they were, whatever the state and the filter.
C16_QueriesMutateNothing ==
    [][IsQuery => UNCHANGED <<storeVars, latestPrices>>]_vars

\* getPortfolio has been answered over a store that holds a closed position
\* and a price that was updated
C16_Witness ==
    /\ last.outcome = "getPortfolio"
    /\ ClosedSymbols # {}
    /\ latestPrices # initializeDefaultPrices
    /\ Len(trades) >= 2

\* C17 as stated: every entry of the list getPortfolio returns has
\* totalQuantity > 0, and no symbol sold down to zero is in the list.
C17_EntriesHavePositiveQuantity ==
    last.outcome = "getPortfolio" =>
        /\ \A i \in 1..Len(last.response.positions) :
              IsPositiveNumber(last.response.positions[i].totalQuantity)
        /\ SymbolsOf(last.response.positions) \cap ClosedSymbols = {}

\* C17 amended: every entry of the list getPortfolio returns is that of a
\* stored Position whose totalQuantity is > 0, shown rounded to 8 decimal
\* places (so never negative, and 0 for a holding below half of 10^-8), and no
\* symbol sold down to zero is in the list.
C17_EntriesAreOpenPositions ==
    last.outcome = "getPortfolio" =>
        /\ \A i \in 1..Len(last.response.positions) :
              LET entry == last.response.positions[i]
              IN  /\ Has(positions, entry.symbol)
                  /\ greaterThan(positions[entry.symbol].totalQuantity, Zero)
                  /\ entry.totalQuantity.hn >= 0
                  /\ entry.totalQuantity.int >= 0
                  /\ entry.totalQuantity.frac >= 0
                  /\ positions[entry.symbol].totalQuantity.lo > 0
                        => IsPositiveNumber(entry.totalQuantity)
        /\ SymbolsOf(last.response.positions) \cap ClosedSymbols = {}

\* getPortfolio has listed an open position while another symbol, bought and
\* sold down to zero, is still in the store
C17_Witness ==
    /\ last.outcome = "getPortfolio"
    /\ Len(last.response.positions) = 1
    /\ ClosedSymbols # {}
    /\ \E s \in ClosedSymbols : Passes(last.argument, s)

C19_ClosedOnlyInRealized ==
    last.outcome = "getPnl" =>
        /\ SymbolsOf(last.response.unrealizedPnl) = OpenSymbols(last.argument)
        /\ Len(last.response.unrealizedPnl) = Cardinality(OpenSymbols(last.argument))
        /\ \A s \in ClosedSymbols :
              Passes(last.argument, s) =>
                 /\ s \notin SymbolsOf(last.response.unrealizedPnl)
                 /\ s \in SymbolsOf(last.response.realizedPnl)
                 /\ EntryOf(last.response.realizedPnl, s).realizedPnl
                       = toNumber(realizedPnlAggregates[s].totalPnl)
                 /\ EntryOf(last.response.realizedPnl, s).closedQuantity
                       = toNumber(realizedPnlAggregates[s].totalQuantity)

\* getPnl has been answered with a closed symbol in the realized list only
\* and an open one in the unrealized list
C19_Witness ==
    /\ last.outcome = "getPnl"
    /\ Len(last.response.unrealizedPnl) = 1
    /\ \E s \in ClosedSymbols :
          /\ s \in SymbolsOf(last.response.realizedPnl)
          /\ s \notin SymbolsOf(last.response.unrealizedPnl)

\* C20 as stated: the realizedPnl list of getPnl has one entry for each symbol
\* that passes the filter and whose aggregate totalPnl is > 0, and no other.
C20_RealizedListsProfitsOnly ==
    last.outcome = "getPnl" =>
        /\ SymbolsOf(last.response.realizedPnl)
              = {s \in DOMAIN realizedPnlAggregates :
                    /\ Passes(last.argument, s)
                    /\ greaterThan(realizedPnlAggregates[s].totalPnl, Zero)}
        /\ Len(last.response.realizedPnl)
              = Cardinality(SymbolsOf(last.response.realizedPnl))

\* C20 amended: the realizedPnl list of getPnl has one entry for each symbol
\* that passes the filter and has an aggregate, whatever the sign of its
\* totalPnl, and no other.
C20_RealizedListsEveryAggregate ==
    last.outcome = "getPnl" =>
        /\ SymbolsOf(last.response.realizedPnl)
              = {s \in DOMAIN realizedPnlAggregates : Passes(last.argument, s)}
        /\ Len(last.response.realizedPnl)
              = Cardinality(SymbolsOf(last.response.realizedPnl))
        /\ \A i \in 1..Len(last.response.realizedPnl) :
              last.response.realizedPnl[i].realizedPnl
                 = toNumber(realizedPnlAggregates[
                                last.response.realizedPnl[i].symbol].totalPnl)

\* getPnl has listed an aggregate with a loss
C20_Witness ==
    /\ last.outcome = "getPnl"
    /\ Len(last.response.realizedPnl) = 1
    /\ last.response.realizedPnl[1].realizedPnl.int < 0

\* the step is an accepted SELL of exactly the quantity the symbol held
SellOfAllHeld ==
    /\ last'.outcome = "recorded"
    /\ last'.trade.side = SELL
    /\ last'.trade.quantity = positionOf(last'.trade.symbol).totalQuantity

\* C24: clearAll leaves the trade log, the index, the positions, the record
\* logs and the aggregates empty, and a call of addTrade on the store it
\* leaves is never answered as a duplicate: its Trade is new, the only one of
\* the log.
C24_ClearAllWipesEverything ==
    [][/\ last'.outcome = "cleared" =>
             /\ trades' = << >>
             /\ tradeIdIndex' = EmptyMap
             /\ positions' = EmptyMap
             /\ pnlRecords' = EmptyMap
             /\ realizedPnlAggregates' = EmptyMap
       /\ (last.outcome = "cleared" /\ IsAddTrade) =>
             /\ last'.outcome # "duplicate"
             /\ trades' = <<last'.trade>>
             /\ tradeIdIndex' = MapSet(EmptyMap, last'.trade.tradeId, last'.trade)]_vars

\* clearAll has run: the store is empty
C24_Witness ==
    /\ last.outcome = "cleared"
    /\ trades = << >>
    /\ DOMAIN tradeIdIndex = {}
    /\ DOMAIN positions = {}

C30_LotsArePositive ==
    \A s \in DOMAIN positions :
        \A i \in 1..Len(positions[s].fifoQueue) :
            greaterThan(positions[s].fifoQueue[i].quantity, Zero)

\* a SELL has taken one lot whole and part of the next, which heads the queue
\* with what is left of it
C30_Witness ==
    /\ last.outcome = "recorded"
    /\ last.trade.side = SELL
    /\ Len(RecordsOf(pnlRecords, last.trade.symbol)) = 2
    /\ Len(positions[last.trade.symbol].fifoQueue) = 1
    /\ positions[last.trade.symbol].fifoQueue[1].tradeId = 2
    /\ lessThan(positions[last.trade.symbol].fifoQueue[1].quantity, trades[2].quantity)

\* C25 as stated: the controller's addTrade answers duplicate = true only for
\* a tradeId that an earlier submission was answered duplicate = false for,
\* with the id of that answer and without changing any stored state, and it
\* answers the first submission of a tradeId with duplicate = false.
C25_FirstAnswerNewLaterAnswersDuplicate ==
    [][/\ last'.outcome = "answered" =>
            /\ last'.response.duplicate
            /\ InLog(last'.trade.tradeId)
            /\ last'.trade.tradeId \notin rejected
            /\ last'.response.id = LoggedTrade(last'.trade.tradeId).id
            /\ UNCHANGED <<storeVars, latestPrices>>
       /\ last'.outcome = "recorded" =>
            /\ ~InLog(last'.trade.tradeId)
            /\ ~addTradeResponse'.duplicate
            /\ addTradeResponse'.id = last'.trade.id]_vars

\* C26 as stated: PortfolioController.getPortfolio called with ?symbol=s
\* returns exactly the open position of s.
C26_SingleSymbolFilter ==
    (last.outcome = "controller.getPortfolio" /\ "symbol" \in DOMAIN last.argument) =>
        SymbolsOf(last.response.positions) = OpenSymbols(<<last.argument.symbol>>)

\* C27 as stated: PortfolioController.getPortfolio called with
\* ?symbols=a,b returns only the open positions of the symbols of the list.
C27_SymbolListFilter ==
    (last.outcome = "controller.getPortfolio" /\ "symbols" \in DOMAIN last.argument) =>
        SymbolsOf(last.response.positions)
            = OpenSymbols(split(last.argument.symbols))

\* C28 as stated: a bulk price update that throws for a price that is not
\* positive leaves every market price as it was.
C28_BulkUpdateIsAtomic ==
    [][last'.outcome = "invalidPrices" => UNCHANGED latestPrices]_vars

\* the symbols filter PortfolioController.getPnl was asked with
FilterOf(query) ==
    IF "symbols" \in DOMAIN query THEN split(query.symbols) ELSE << >>

\* an exact sum held as [hi, lo, fr] is below zero
IsLoss(d) == d.hi < 0 \/ (d.hi = 0 /\ (d.lo < 0 \/ (d.lo = 0 /\ d.fr < 0)))

\* the loss is of 0.000000005 or more: it does not round to zero at the 8th
\* decimal place
IsVisibleLoss(d) == d.hi < 0 \/ (d.hi = 0 /\ d.lo < 0)

\* the number of a response is below zero
IsNegativeNumber(x) ==
    \/ x.hn < 0
    \/ x.hn = 0 /\ (x.int < 0 \/ (x.int = 0 /\ x.frac < 0))

\* the number is exactly the value d
NumberIs(x, d) ==
    /\ x.hn = d.hi * x.hd
    /\ x.int = d.lo
    /\ x.frac = 0
    /\ d.fr = 0

\* the number is the value d rounded to DecimalPlaces decimal places: a part
\* of d below 10^-Precision is rounded away
NumberIsRounded(x, d) ==
    /\ x.hn = d.hi * x.hd
    /\ d.hi = 0 => x.int = d.lo
    /\ x.frac = 0

\* the totalRealizedPnl of a getPnl response is the sum of the entries of its
\* realizedPnl list, to the cent
TotalIncludesEntries(response) ==
    response.totalRealizedPnl
        = toFixed2(NumberSum([i \in 1..Len(response.realizedPnl) |->
                                 response.realizedPnl[i].realizedPnl]))

\* C21 as stated: a symbol whose records sum to a loss has an entry in the
\* realizedPnl list of getPnl, with a negative realizedPnl equal to the sum
\* of its records, and totalRealizedPnl includes it.
C21_LossIsReportedNegative ==
    last.outcome = "controller.getPnl" =>
        /\ \A s \in DOMAIN pnlRecords :
              (Passes(FilterOf(last.argument), s) /\ IsLoss(PnlSum(pnlRecords[s]))) =>
                  /\ s \in SymbolsOf(last.response.realizedPnl)
                  /\ IsNegativeNumber(EntryOf(last.response.realizedPnl, s).realizedPnl)
                  /\ NumberIs(EntryOf(last.response.realizedPnl, s).realizedPnl,
                              PnlSum(pnlRecords[s]))
        /\ TotalIncludesEntries(last.response)

\* C21 amended: a symbol whose records sum to a loss has an entry in the
\* realizedPnl list of getPnl, whose realizedPnl is the sum of its records
\* (while that sum keeps within Precision digits) rounded to 8 decimal
\* places, negative when the loss is of 0.000000005 or more, and
\* totalRealizedPnl includes it.
C21_LossIsReportedToEightPlaces ==
    last.outcome = "controller.getPnl" =>
        /\ \A s \in DOMAIN pnlRecords :
              (Passes(FilterOf(last.argument), s) /\ IsLoss(PnlSum(pnlRecords[s]))) =>
                  /\ s \in SymbolsOf(last.response.realizedPnl)
                  /\ PartialSumsFit(pnlRecords[s]) =>
                        /\ NumberIsRounded(EntryOf(last.response.realizedPnl, s).realizedPnl,
                                           PnlSum(pnlRecords[s]))
                        /\ IsVisibleLoss(PnlSum(pnlRecords[s])) =>
                              IsNegativeNumber(
                                  EntryOf(last.response.realizedPnl, s).realizedPnl)
        /\ TotalIncludesEntries(last.response)

\* getPnl has reported the loss of BTC bought at 2 and sold at 1, and the
\* total has it
C21_Witness ==
    /\ last.outcome = "controller.getPnl"
    /\ Has(pnlRecords, "BTC")
    /\ PnlSum(pnlRecords["BTC"]) = [hi |-> 0, lo |-> -1, fr |-> 0]
    /\ EntryOf(last.response.realizedPnl, "BTC").realizedPnl.int = -1
    /\ last.response.totalRealizedPnl.int = -1

\* the quantities bought for the symbol, and those sold by a SELL that was
\* not refused, as the trade log has them
Bought(symbol) ==
    QuantitySum(SelectSeq(trades, LAMBDA t : t.symbol = symbol /\ t.side = BUY))

Sold(symbol) ==
    QuantitySum(SelectSeq(trades, LAMBDA t : /\ t.symbol = symbol
                                             /\ t.side = SELL
                                             /\ t.tradeId \notin rejected))

\* the sum a is b + c, part by part
SumIs(a, b, c) == a.hi = b.hi + c.hi /\ a.lo = b.lo + c.lo /\ a.fr = b.fr + c.fr

\* the store is that of whole trades: for every symbol totalQuantity is the
\* sum of the lots, the average is that of the lots, what the log says was
\* bought is held in lots or closed in records, what it says was sold is
\* closed in records, and the aggregate counts the records
Settled ==
    \A symbol \in Symbols :
        LET position == positionOf(symbol)
            held == QuantitySum(position.fifoQueue)
            closed == QuantitySum(RecordsOf(pnlRecords, symbol))
        IN  /\ position.totalQuantity = held
            /\ position.averageEntryPrice =
                  IF greaterThan(held, Zero)
                  THEN dividedBy(totalCost(position.fifoQueue), held)
                  ELSE ZeroQuotient
            /\ SumIs(Bought(symbol), held, closed)
            /\ Sold(symbol) = closed
            /\ Has(pnlRecords, symbol) = Has(realizedPnlAggregates, symbol)
            /\ Has(realizedPnlAggregates, symbol) =>
                  /\ realizedPnlAggregates[symbol].totalQuantity = closed
                  /\ realizedPnlAggregates[symbol].totalPnl
                        = PnlSum(pnlRecords[symbol])

\* C23: a read (getPortfolio, getPnl, getAllTrades) is never answered from
\* the store of a call of addTrade that has not returned: the store it reads
\* is that of whole trades, with no lot partly consumed, no record without
\* its position update and no totalQuantity out of step with the lots.
C23_ReadsSeeWholeTrades ==
    [][IsQuery => Settled]_vars

\* getPnl has been answered after a SELL that consumed one lot and a part of
\* the next
C23_Witness ==
    /\ last.outcome = "getPnl"
    /\ Len(trades) = 3
    /\ trades[3].side = SELL
    /\ Has(pnlRecords, "BTC")
    /\ Len(pnlRecords["BTC"]) = 2
    /\ Len(positions["BTC"].fifoQueue) = 1
    /\ Len(last.response.realizedPnl) = 1

\* C22 as stated: the netPnl of a getPnl response is the totalRealizedPnl it
\* returns plus the totalUnrealizedPnl it returns, each already rounded to 2
\* decimal places.
C22_NetIsSumOfReturnedTotals ==
    last.outcome = "pnlTotals" =>
        last.response.netPnl
            = NumberPlus(last.response.totalRealizedPnl,
                         last.response.totalUnrealizedPnl)

\* the step is an accepted BUY
AcceptedBuy == last'.outcome = "recorded" /\ last'.trade.side = BUY

\* C31: an accepted BUY leaves the queue of its symbol as it was with one lot
\* more at the tail, of the quantity, the price and the id of the new Trade,
\* and leaves the record logs and the aggregates as they were.
C31_BuyAppendsOneLot ==
    [][AcceptedBuy =>
          /\ positions'[last'.trade.symbol].fifoQueue
                = Append(positionOf(last'.trade.symbol).fifoQueue,
                         [quantity |-> last'.trade.quantity,
                          price |-> last'.trade.price,
                          tradeId |-> last'.trade.id])
          /\ last'.trade = trades'[Len(trades')]
          /\ UNCHANGED <<pnlRecords, realizedPnlAggregates>>]_vars

\* a BUY has been accepted on a queue that held a lot, for a symbol with
\* records
C31_Witness ==
    /\ last.outcome = "recorded"
    /\ last.trade.side = BUY
    /\ Len(positions[last.trade.symbol].fifoQueue) = 2
    /\ positions[last.trade.symbol].fifoQueue[2].tradeId = last.trade.id
    /\ Has(pnlRecords, last.trade.symbol)

\* the step is an accepted BUY of a symbol whose stored Position was sold to
\* zero
Reopening ==
    /\ AcceptedBuy
    /\ Has(positions, last'.trade.symbol)
    /\ positions[last'.trade.symbol].totalQuantity = Zero
    /\ Has(pnlRecords, last'.trade.symbol)

\* the Position is that of the one BUY: its lot alone, its quantity, its price
StartsFresh(position, trade) ==
    /\ position.fifoQueue = <<[quantity |-> trade.quantity, price |-> trade.price,
                               tradeId |-> trade.id]>>
    /\ position.totalQuantity = trade.quantity
    /\ position.averageEntryPrice = asQuotient(trade.price)

\* C32 as stated: a BUY of a symbol sold to zero leaves a Position of one
\* lot, that of the BUY, with its quantity as totalQuantity and its price as
\* averageEntryPrice.
C32_ReopenStartsFresh ==
    [][Reopening => StartsFresh(positions'[last'.trade.symbol], last'.trade)]_vars

\* a quotient is a fraction: no division by zero made it
IsDefined(q) == q.den # 0

\* C33: no stored Position has an averageEntryPrice that a division by zero
\* made: a Position holds a totalQuantity > 0 and the quotient of a division
\* by it, or the totalQuantity 0 and the average 0 that handleSell assigns
\* without dividing.
C33_NoDivisionByZero ==
    \A s \in DOMAIN positions :
        /\ IsDefined(positions[s].averageEntryPrice)
        /\ \/ greaterThan(positions[s].totalQuantity, Zero)
           \/ /\ positions[s].totalQuantity = Zero
              /\ positions[s].averageEntryPrice = ZeroQuotient

\* a SELL has taken the whole of a symbol, another symbol is held
C33_Witness ==
    /\ last.outcome = "recorded"
    /\ last.trade.side = SELL
    /\ positions[last.trade.symbol].totalQuantity = Zero
    /\ positions[last.trade.symbol].averageEntryPrice = ZeroQuotient
    /\ \E s \in DOMAIN positions : greaterThan(positions[s].totalQuantity, Zero)

\* a - b, part by part and unrounded
Difference(a, b) == [hi |-> a.hi - b.hi, lo |-> a.lo - b.lo, fr |-> a.fr - b.fr]

\* currentPrice * totalQuantity of a stored Position whose symbol has a market
\* price, unrounded
ExactValue(s) == Scaled(positions[s].totalQuantity, latestPrices[s].m)

\* (currentPrice - averageEntryPrice) * totalQuantity of such a Position,
\* unrounded: its value less the cost of its lots
ExactUnrealizedPnl(s) == Difference(ExactValue(s), CostSum(positions[s].fifoQueue))

RECURSIVE ExactTotal(_, _)
\* the unrounded sum of F over a set of symbols
ExactTotal(F(_), set) ==
    IF set = {} THEN Zero
    ELSE LET s == CHOOSE x \in set : TRUE
             rest == ExactTotal(F, set \ {s})
         IN  [hi |-> F(s).hi + rest.hi, lo |-> F(s).lo + rest.lo,
              fr |-> F(s).fr + rest.fr]

\* every figure of the list is a double that holds its value to the unit
HeldToTheUnit(list) ==
    \A i \in 1..Len(list) :
        list[i].currentValue.hn = 0 /\ list[i].unrealizedPnl.hn = 0

\* getPortfolio answered on positions that all have a market price and a
\* totalQuantity that is the sum of their lots
IsValuation ==
    /\ last.outcome = "getPortfolio"
    /\ OpenSymbols(last.argument) \subseteq DOMAIN latestPrices
    /\ \A s \in OpenSymbols(last.argument) :
          positions[s].totalQuantity = QuantitySum(positions[s].fifoQueue)

\* C34 as stated: totalValue and totalUnrealizedPnl of getPortfolio are the
\* exact sums of currentPrice * totalQuantity and of (currentPrice -
\* averageEntryPrice) * totalQuantity over the returned positions.
C34_TotalsAreExactSums ==
    IsValuation =>
        /\ NumberIs(last.response.totalValue,
                    ExactTotal(ExactValue, OpenSymbols(last.argument)))
        /\ NumberIs(last.response.totalUnrealizedPnl,
                    ExactTotal(ExactUnrealizedPnl, OpenSymbols(last.argument)))

\* C34 amended: the totals are the sums, as JavaScript numbers, of the
\* currentValue and unrealizedPnl figures of the returned positions, rounded
\* to 2 decimal places; they are the exact sums when every figure is a double
\* that holds its value to the unit.
C34_TotalsAreSumsOfFigures ==
    IsValuation =>
        /\ last.response.totalValue
              = toFixed2(NumberSum([i \in 1..Len(last.response.positions) |->
                                       last.response.positions[i].currentValue]))
        /\ last.response.totalUnrealizedPnl
              = toFixed2(NumberSum([i \in 1..Len(last.response.positions) |->
                                       last.response.positions[i].unrealizedPnl]))
        /\ HeldToTheUnit(last.response.positions) =>
              /\ NumberIs(last.response.totalValue,
                          ExactTotal(ExactValue, OpenSymbols(last.argument)))
              /\ NumberIs(last.response.totalUnrealizedPnl,
                          ExactTotal(ExactUnrealizedPnl, OpenSymbols(last.argument)))

\* getPortfolio has summed the figures of BTC and ETH, one unit of each
C34_Witness ==
    /\ IsValuation
    /\ Len(last.response.positions) = 2
    /\ HeldToTheUnit(last.response.positions)
    /\ last.response.totalValue.int = 46500
    /\ last.response.totalUnrealizedPnl.int = 46497

\* C35: when the caller of the store's getAllTrades adds an element to the
\* array it was returned, removes one or reorders them, the trade log and the
\* index of the store stay as they were, and so does what getAllTrades and
\* findTradeByTradeId return.
C35_ReturnedArrayIsACopy ==
    [][last'.outcome = "mutated" =>
          /\ UNCHANGED <<trades, tradeIdIndex>>
          /\ getAllTrades("")' = getAllTrades("")
          /\ \A tradeId \in TradeIds :
                findTradeByTradeId(tradeId)' = findTradeByTradeId(tradeId)]_vars

\* the caller has emptied the array it was returned of a log of two trades
C35_Witness ==
    /\ last.outcome = "mutated"
    /\ last.response.elements = << >>
    /\ Len(trades) = 2

\* the price looked up for the symbol passes the test of marketPrice ? ... : ...
IsTruthy(symbol) == getPrice(symbol) # undefined /\ getPrice(symbol).m # 0

\* C36: updatePrice with a price <= 0 throws and leaves the stored prices as
\* they were, so that every price the oracle holds is strictly positive in
\* every reachable state, and the price looked up for a symbol is truthy
\* exactly when the oracle holds a price for the symbol.
C36_StoredPricesArePositive ==
    /\ [](\A symbol \in DOMAIN latestPrices :
            /\ latestPrices[symbol].m > 0
            /\ IsTruthy(symbol))
    /\ [][last'.outcome = "invalidPrice" => UNCHANGED latestPrices]_vars

\* a price <= 0 was rejected after a first price for DOGE was stored
C36_Witness ==
    /\ last.outcome = "invalidPrice"
    /\ Has(latestPrices, "DOGE")
    /\ latestPrices["DOGE"] = Num(2, 0)

\* the lot of a position of the symbol is what is left of the trade at place
\* i of the log: a BUY of the symbol with the id and the price of the lot and
\* at least its quantity
IsLotOf(lot, symbol, i) ==
    /\ trades[i].id = lot.tradeId
    /\ trades[i].side = BUY
    /\ trades[i].symbol = symbol
    /\ trades[i].price = lot.price
    /\ lessThanOrEqualTo(lot.quantity, trades[i].quantity)

\* the place in the log of the trade with the internal id
PlaceOf(id) == CHOOSE i \in 1..Len(trades) : trades[i].id = id

\* C37: every lot of every stored position carries the price and the internal
\* id of a BUY trade of the position's symbol that the log holds, and no more
\* than the quantity of that trade; no two lots of a queue have the same
\* tradeId, and the lots of a queue are in the order in which their trades
\* were recorded.
C37_LotProvenance ==
    \A symbol \in DOMAIN positions :
        LET queue == positions[symbol].fifoQueue IN
        /\ \A k \in 1..Len(queue) :
              \E i \in 1..Len(trades) : IsLotOf(queue[k], symbol, i)
        /\ \A k \in 1..Len(queue) : \A l \in 1..Len(queue) :
              k < l => /\ queue[k].tradeId # queue[l].tradeId
                       /\ PlaceOf(queue[k].tradeId) < PlaceOf(queue[l].tradeId)

\* two lots of BTC after a sell took a part of the older one
C37_Witness ==
    /\ Has(positions, "BTC")
    /\ Len(positions["BTC"].fifoQueue) = 2
    /\ lessThan(positions["BTC"].fifoQueue[1].quantity,
                trades[PlaceOf(positions["BTC"].fifoQueue[1].tradeId)].quantity)

\* the closed quantity the aggregate of the symbol holds, 0 without aggregate
ClosedQuantity(symbol) ==
    IF Has(realizedPnlAggregates, symbol)
    THEN realizedPnlAggregates[symbol].totalQuantity
    ELSE Zero

\* what the log says was bought of the symbol is its position's totalQuantity
\* (0 without position) plus the closed quantity of its aggregate
Conserved(symbol) ==
    SumIs(Bought(symbol), positionOf(symbol).totalQuantity, ClosedQuantity(symbol))

\* C38 as stated: in every reachable state, for every symbol, the sum of the
\* quantities of the BUY trades of the log is the totalQuantity of the
\* position plus the closed quantity of the aggregate.
C38_QuantityConservation == \A symbol \in Symbols : Conserved(symbol)

\* C38 amended: the same for every symbol whose traded quantities stay within
\* the precision of the decimal type.
C38_QuantityConservationWithinPrecision ==
    \A symbol \in Symbols : OrdinaryQuantities(symbol) => Conserved(symbol)

\* of three units of BTC bought, a part is held and a part is closed
C38_Witness ==
    /\ OrdinaryQuantities("BTC")
    /\ Bought("BTC") = toDecimal(Num(3, 0))
    /\ greaterThan(positionOf("BTC").totalQuantity, Zero)
    /\ greaterThan(ClosedQuantity("BTC"), Zero)

\* the step is a SELL that passed the balance check
AcceptedSell == last'.outcome = "recorded" /\ last'.trade.side = SELL

\* the loop of the SELL of the step is left with remainingQuantity at 0, the
\* quantities of the records the step adds sum to the quantity of the trade,
\* and the closed quantity of the aggregate grows by the quantity of the trade
MatchedInFull ==
    LET symbol == last'.trade.symbol
        old == RecordsOf(pnlRecords, symbol)
        new == RecordsOf(pnlRecords', symbol)
    IN  /\ remainingQuantityAfter(positionOf(symbol).fifoQueue,
                                  last'.trade.quantity) = Zero
        /\ QuantitySum(SubSeq(new, Len(old) + 1, Len(new))) = last'.trade.quantity
        /\ Has(realizedPnlAggregates', symbol)
        /\ SumIs(realizedPnlAggregates'[symbol].totalQuantity,
                 ClosedQuantity(symbol), last'.trade.quantity)

\* C39 as stated: the matching loop of every accepted SELL ends with the
\* remaining quantity at exactly 0, the quantities of the records it emits sum
\* to trade.quantity, and the closed quantity of the aggregate grows by
\* exactly trade.quantity.
C39_SellIsMatchedInFull == [][AcceptedSell => MatchedInFull]_vars

\* C39 amended: the same for every accepted SELL of a symbol whose traded
\* quantities, that of the SELL included, stay within the precision of the
\* decimal type.
C39_SellIsMatchedInFullWithinPrecision ==
    [][(/\ AcceptedSell
        /\ OrdinaryQuantities(last'.trade.symbol)
        /\ last'.trade.quantity.hi = 0
        /\ last'.trade.quantity.fr = 0) => MatchedInFull]_vars

\* a SELL of two units has taken a lot of one unit and one unit of the next
\* lot: its two records are the only ones and sum to two
C39_Witness ==
    /\ last.outcome = "recorded"
    /\ last.trade.side = SELL
    /\ last.trade.quantity = toDecimal(Num(2, 0))
    /\ OrdinaryQuantities(last.trade.symbol)
    /\ Len(RecordsOf(pnlRecords, last.trade.symbol)) = 2
    /\ QuantitySum(pnlRecords[last.trade.symbol]) = last.trade.quantity
    /\ realizedPnlAggregates[last.trade.symbol].totalQuantity = last.trade.quantity
    /\ positions[last.trade.symbol].totalQuantity = toDecimal(Num(1, 0))

\* C40: a request that sends the tradeId of a stored Trade again with another
\* symbol, side, price or quantity is answered with the stored Trade, its
\* fields as they were recorded, and changes neither the log, the index, a
\* position, a record log nor an aggregate.
C40_DifferentPayloadIsIgnored ==
    [][last'.outcome = "duplicate" =>
          /\ InLog(last'.trade.tradeId)
          /\ last'.trade = LoggedTrade(last'.trade.tradeId)
          /\ last'.trade = findTradeByTradeId(last'.trade.tradeId)
          /\ UNCHANGED storeVars]_vars

\* the BUY of BTC at price 1 with tradeId 1 was answered to a request that
\* sent tradeId 1 again after a second trade had closed the position
C40_Witness ==
    /\ last.outcome = "duplicate"
    /\ last.trade.tradeId = 1
    /\ last.trade.side = BUY
    /\ last.trade.price = toDecimal(Num(1, 0))
    /\ Len(trades) = 2
    /\ trades[2].side = SELL
    /\ positionOf("BTC").totalQuantity = Zero

=============================================================================
